---- MODULE Spec2Model ----
(***************************************************************************)
(* Circles address resolution, activity classification and the streaming   *)
(* orchestrator of the Farcaster mini app (lib/circles-lookup.ts,          *)
(* lib/simple-cache.ts, components/circles-analyzer.tsx).  The resolver is *)
(* the version of circles-lookup.ts with confidence scores, activity       *)
(* analysis and mintable amounts; it calls the lookups directly, without a *)
(* cache.                                                                  *)
(*                                                                         *)
(* Specifications: ActivitySpec (one analyzeActivity call), ResolveSpec    *)
(* (one checkCirclesStatusWithDebug call), TwiceSpec (two calls in         *)
(* succession), StreamSpec (one streamCirclesStatus run and its consumer), *)
(* WaveSpec, TrustSpec, CacheSpec (the cache), AnalyzerSpec and            *)
(* FriendsSpec (the state of the two components that consume the stream).  *)
(*                                                                         *)
(* JavaScript objects are records; an optional property that is undefined  *)
(* is a field that is absent from the record (tested with DOMAIN).         *)
(***************************************************************************)
EXTENDS Integers, Sequences, FiniteSets, TLC

VARIABLES
    log,        \* analyzeActivity: the event list passed in
    analysis,   \* analyzeActivity: <<>> before the call, <<result>> after it
    upstream,   \* the responses the upstream services may give, per request kind
    chains,     \* the checkCirclesStatusWithDebug calls, one per address list
    httpCalls,  \* number of upstream requests issued so far
    previous,   \* the outcome of an earlier resolution of the same addresses
    run,        \* streamCirclesStatus and the loop that consumes it
    devCache,   \* the EnhancedCache instance, its localStorage and the clock
    ui          \* the React state of a component and the runs it has started

vars == <<log, analysis, upstream, chains, httpCalls, previous, run, devCache, ui>>

Min(a, b) == IF a < b THEN a ELSE b

\* no component is mounted
NoUi == <<>>

(***************************************************************************)
(* Time.  Date.now() is an input of the program; the model fixes the clock *)
(* of a classification at Now0 seconds after its own epoch.                *)
(***************************************************************************)
DaySeconds == 24 * 60 * 60
Now0 == 400 * DaySeconds

(***************************************************************************)
(* Event names.  A name is the sequence of the pieces the code tests for   *)
(* with ===, startsWith and includes: "CrcV2_RegisterOrganization" is      *)
(* <<"CrcV2_", "Register", "Organization">>.  The empty sequence is a      *)
(* missing (or empty) name.                                                *)
(***************************************************************************)
RegisterHuman == <<"CrcV2_", "RegisterHuman">>
RegisterOrganization == <<"CrcV2_", "Register", "Organization">>
RegisterGroup == <<"CrcV2_", "Register", "Group">>
TransferSingle == <<"CrcV2_", "Transfer", "Single">>
StreamCompleted == <<"CrcV2_", "Stream", "Completed">>
TrustEvent == <<"CrcV2_", "Trust">>
AddedOwner == <<"Safe_", "AddedOwner">>
V1OrganizationSignup == <<"CrcV1_", "Organization", "Signup">>
V1Transfer == <<"CrcV1_", "Transfer">>

\* String.prototype.startsWith
startsWith(name, prefix) ==
    /\ Len(name) >= Len(prefix)
    /\ \A i \in 1..Len(prefix) : name[i] = prefix[i]

\* String.prototype.includes, for a one-piece needle
includes(name, piece) == \E i \in 1..Len(name) : name[i] = piece

\* e.event?.xxx : a missing name never matches
eventName(e) == IF "event" \in DOMAIN e THEN e.event ELSE <<>>

(***************************************************************************)
(* Timestamps as upstream sends them: a number, or a string of hex digits  *)
(* (a digit above 15 stands for a character that is not a hex digit).      *)
(***************************************************************************)
NumTs(n) == [k |-> "num", v |-> n]
HexTs(d) == [k |-> "hex", d |-> d]

RECURSIVE ToHexDigits(_)
ToHexDigits(n) == IF n < 16 THEN <<n>> ELSE Append(ToHexDigits(n \div 16), n % 16)

\* JavaScript truthiness of a timestamp property
truthy(r, f) ==
    /\ f \in DOMAIN r
    /\ r[f].k = "num" => r[f].v # 0
    /\ r[f].k = "hex" => Len(r[f].d) > 0

RECURSIVE hexPrefixValue(_, _, _)
hexPrefixValue(d, i, acc) ==
    IF i > Len(d) \/ d[i] > 15 THEN acc
    ELSE hexPrefixValue(d, i + 1, 16 * acc + d[i])

\* parseInt(s, 16): the value of the leading hex digits, NaN when there is none
parseInt16(d) ==
    IF Len(d) = 0 \/ d[1] > 15 THEN [nan |-> TRUE, v |-> 0]
    ELSE [nan |-> FALSE, v |-> hexPrefixValue(d, 1, 0)]

\* typeof x === 'string' ? parseInt(x, 16) : x
timestampValue(ts) ==
    IF ts.k = "hex" THEN parseInt16(ts.d) ELSE [nan |-> FALSE, v |-> ts.v]

\* the timestamp the loop of analyzeActivity extracts from one event
eventTimestamp(e) ==
    IF "values" \in DOMAIN e /\ truthy(e.values, "timestamp")
        THEN timestampValue(e.values.timestamp)
    ELSE IF truthy(e, "timestamp")
        THEN timestampValue(e.timestamp)
    ELSE [nan |-> FALSE, v |-> 0]

\* a > b in JavaScript: false when a is NaN
gt(t, n) == ~t.nan /\ t.v > n

(***************************************************************************)
(* analyzeActivity                                                         *)
(***************************************************************************)
\* faulty variant: startsWith instead of includes, exact-name test lost
isOrganizationEvent_prefixOnly(e) == startsWith(eventName(e), <<"Organization">>)

isOrganizationEvent(e) ==
    \/ includes(eventName(e), "Organization")
    \/ eventName(e) = RegisterOrganization

isActivityEvent(e) ==
    \/ startsWith(eventName(e), <<"CrcV2_", "Transfer">>)
    \/ startsWith(eventName(e), <<"CrcV2_", "Stream">>)
    \/ startsWith(eventName(e), <<"CrcV2_", "Trust">>)
    \/ eventName(e) = RegisterHuman

\* Array.prototype.filter
filterEvents(evs, P(_)) == SelectSeq(evs, P)

thirtyDaysAgo(now) == now - (30 * 24 * 60 * 60)
ninetyDaysAgo(now) == now - (90 * 24 * 60 * 60)

\* faulty variant: the timestamp of the event read last is kept, whether or
\* not it is the greatest
activityStep_lastSeen(acc, e, now) ==
    LET t == eventTimestamp(e)
    IN  <<IF gt(t, thirtyDaysAgo(now)) THEN acc[1] + 1 ELSE acc[1],
          t.v>>

\* one iteration of the for loop over activityEvents, on the pair
\* <<recentActivityCount, lastActivityTimestamp>>
activityStep(acc, e, now) ==
    LET t == eventTimestamp(e)
    IN  <<IF gt(t, thirtyDaysAgo(now)) THEN acc[1] + 1 ELSE acc[1],
          IF gt(t, acc[2]) THEN t.v ELSE acc[2]>>

\* the iterations lo..hi of the loop, in order, starting from acc (the range
\* is split in two so that a long log does not nest deeply)
RECURSIVE activityLoop(_, _, _, _, _)
activityLoop(evs, now, lo, hi, acc) ==
    IF lo > hi THEN acc
    ELSE IF lo = hi THEN activityStep(acc, evs[lo], now)
    ELSE LET mid == (lo + hi) \div 2
             left == activityLoop(evs, now, lo, mid, acc)
         IN  \* the test evaluates the first half before the second starts
             IF left[1] >= 0 THEN activityLoop(evs, now, mid + 1, hi, left) ELSE left

\* faulty variant: three points per event instead of one point per ten events
volumePoints_perEvent(n) == Min(30, n * 3)

volumePoints(n) == Min(30, n \div 10)
recentPoints(recent) == Min(40, recent * 2)
recencyBonus(last, now) ==
    IF last > thirtyDaysAgo(now) THEN 30
    ELSE IF last > ninetyDaysAgo(now) THEN 15
    ELSE 0

\* faulty variant: the three clauses are conjoined instead of disjoined
isActive_allClauses(n, recent, score) == n > 50 /\ recent > 5 /\ score > 40

isActive(n, recent, score) == n > 50 \/ recent > 5 \/ score > 40

analyzeActivity(events, now) ==
    IF Len(events) = 0 THEN
        [activityScore |-> 0, recentActivityCount |-> 0, lastActivityTimestamp |-> 0,
         isActiveByActivity |-> FALSE, shouldSkip |-> FALSE]
    ELSE IF Len(filterEvents(events, isOrganizationEvent)) > 0 THEN
        [activityScore |-> 0, recentActivityCount |-> 0, lastActivityTimestamp |-> 0,
         isActiveByActivity |-> FALSE, shouldSkip |-> TRUE, skipReason |-> "organization"]
    ELSE
        LET activityEvents == filterEvents(events, isActivityEvent)
            loop == activityLoop(activityEvents, now, 1, Len(activityEvents), <<0, 0>>)
            recentActivityCount == loop[1]
            lastActivityTimestamp == loop[2]
            activityScore == volumePoints(Len(activityEvents))
                             + recentPoints(recentActivityCount)
                             + recencyBonus(lastActivityTimestamp, now)
        IN  [activityScore |-> activityScore,
             recentActivityCount |-> recentActivityCount,
             lastActivityTimestamp |-> lastActivityTimestamp,
             isActiveByActivity |->
                 isActive(Len(activityEvents), recentActivityCount, activityScore),
             shouldSkip |-> FALSE]

(***************************************************************************)
(* Upstream HTTP.  A response is one of                                    *)
(*   [kind |-> "network_error"]           fetch rejects                    *)
(*   [kind |-> "status", status |-> n]    a non-2xx status, response.ok    *)
(*                                        is false                         *)
(*   [kind |-> "bad_json"]                response.json() rejects          *)
(*   [kind |-> "json", data |-> d]        a 2xx status with JSON body d    *)
(* JSON null is JsNull; an array is [shape |-> "array", items |-> seq]; an *)
(* object is a record without a shape field.                               *)
(***************************************************************************)
JsNull == [shape |-> "null"]
JsArray(items) == [shape |-> "array", items |-> items]
Json(d) == [kind |-> "json", data |-> d]

isArray(d) == "shape" \in DOMAIN d /\ d.shape = "array"
isObject(d) == "shape" \notin DOMAIN d

TransportFailures ==
    { [kind |-> "network_error"], [kind |-> "status", status |-> 429],
      [kind |-> "status", status |-> 500], [kind |-> "bad_json"] }

\* String.prototype.toLowerCase on the addresses of the model
toLowerCase(a) ==
    CASE a = "0xA" -> "0xa"
      [] a = "0xB" -> "0xb"
      [] a = "0xC" -> "0xc"
      [] a = "0xD" -> "0xd"
      [] a = "0xE" -> "0xe"
      [] OTHER -> a

\* a value returned, or an exception thrown
Returned(v) == [threw |-> FALSE, value |-> v]
Thrown == [threw |-> TRUE]

\* try { body } catch { return fallback }
tryCatch(body, fallback) == IF body.threw THEN Returned(fallback) ELSE body

\* faulty variant: any name property will do, the empty string too
hasName_any(x) == "name" \in DOMAIN x

\* x.name is truthy (x an object)
hasName(x) == "name" \in DOMAIN x /\ x.name # ""

(***************************************************************************)
(* EnhancedCache: a Map in memory backed by localStorage.  devCache is     *)
(*   memoryCache   key -> <<>> or <<entry>>                                *)
(*   localStorage  key -> <<>> or <<entry>>, what JSON.parse gives back    *)
(*   now           Date.now(), in milliseconds                             *)
(*   pending       the fetchers of getOrSet calls not yet settled          *)
(* and three fields the code does not have: writes counts the set calls,   *)
(* last is the latest call if it was a get, with what it returned, and     *)
(* live is the entry each key has by the rules of lazy eviction.           *)
(***************************************************************************)
Hour == 60 * 60 * 1000
Day == 24 * Hour
SevenDays == 7 * Day

Keys == {"circles_0xa", "circles_0xb"}

\* CirclesData values: not found, and found with avatarInfo (whose
\* mintableAmount is a bigint)
Values ==
    { [isOnCircles |-> FALSE],
      [isOnCircles |-> TRUE, mainAddress |-> "0xA", avatarInfo |-> [mintableAmount |-> 5]] }

NoCache ==
    [memoryCache |-> [k \in Keys |-> <<>>], localStorage |-> [k \in Keys |-> <<>>],
     now |-> 0, pending |-> <<>>, writes |-> 0, last |-> <<>>, fetched |-> <<>>,
     live |-> [k \in Keys |-> <<>>]]

\* JSON.stringify throws a TypeError on a bigint
stringify(entry) == IF "avatarInfo" \in DOMAIN entry.data THEN Thrown ELSE Returned(entry)

\* saveToStorage: the item of the key after the call; quota tells whether
\* setItem throws
saveToStorage(stored, entry, quota) ==
    LET body == IF stringify(entry).threw \/ quota THEN Thrown
                ELSE Returned(<<stringify(entry).value>>)
    IN  tryCatch(body, stored).value

\* faulty variant: a key that holds an entry keeps it
set_keepFirst(c, key, data, ttlMs, persist, quota) ==
    LET entry == [data |-> data, timestamp |-> c.now, ttl |-> ttlMs] IN
    IF c.memoryCache[key] # <<>> THEN c
    ELSE [c EXCEPT !.memoryCache[key] = <<entry>>,
                   !.localStorage[key] = IF persist THEN saveToStorage(@, entry, quota) ELSE @]

\* set(key, data, ttlMs, persist)
set(c, key, data, ttlMs, persist, quota) ==
    LET entry == [data |-> data, timestamp |-> c.now, ttl |-> ttlMs] IN
    [c EXCEPT !.memoryCache[key] = <<entry>>,
              !.localStorage[key] = IF persist THEN saveToStorage(@, entry, quota) ELSE @]

\* faulty variant: an entry expires when its age reaches the ttl
expired_atTtl(entry, now) == now - entry.timestamp >= entry.ttl

\* Date.now() - entry.timestamp > entry.ttl
expired(entry, now) == now - entry.timestamp > entry.ttl

\* get(key): the cache after the call and the value returned, <<>> for null
get(c, key) ==
    LET entry == IF c.memoryCache[key] # <<>> THEN c.memoryCache[key]
                 ELSE c.localStorage[key]
    IN  IF entry = <<>> THEN [cache |-> c, value |-> <<>>]
        ELSE IF expired(entry[1], c.now)
        THEN [cache |-> [c EXCEPT !.memoryCache[key] = <<>>, !.localStorage[key] = <<>>],
              value |-> <<>>]
        ELSE [cache |-> [c EXCEPT !.memoryCache[key] = entry], value |-> <<entry[1].data>>]

\* clear()
clear(c) ==
    [c EXCEPT !.memoryCache = [k \in Keys |-> <<>>], !.localStorage = [k \in Keys |-> <<>>]]

(***************************************************************************)
(* directCirclesProfileLookup, from the response of the profile request    *)
(***************************************************************************)
directBody(o) ==
    IF o.kind = "network_error" \/ o.kind = "bad_json" THEN Thrown
    ELSE IF o.kind = "status" THEN Returned([exists |-> FALSE])
    ELSE LET data == o.data IN
         IF isArray(data) /\ Len(data.items) > 0 THEN
             \* data[0].name
             IF data.items[1] = JsNull THEN Thrown
             ELSE IF isObject(data.items[1]) /\ hasName(data.items[1])
                 THEN Returned([exists |-> TRUE, profileData |-> data.items[1]])
             ELSE Returned([exists |-> FALSE])
         ELSE IF isObject(data) /\ hasName(data)
             THEN Returned([exists |-> TRUE, profileData |-> data])
         ELSE Returned([exists |-> FALSE])

\* faulty variant: the try/catch is missing
directCirclesProfileLookup_noCatch(o) == directBody(o)

directCirclesProfileLookup(o) == tryCatch(directBody(o), [exists |-> FALSE])

(***************************************************************************)
(* signerToMainAccountLookup.  The first half runs on the response of the  *)
(* circles_events request and gives the Safe addresses still to look up;   *)
(* each profile response then either ends the loop or moves to the next.   *)
(***************************************************************************)
\* faulty variant: the owner is compared as written
isOwnerEvent_caseSensitive(e, signerAddress) ==
    /\ eventName(e) = AddedOwner
    /\ "values" \in DOMAIN e
    /\ "owner" \in DOMAIN e.values
    /\ e.values.owner = signerAddress

isOwnerEvent(e, signerAddress) ==
    /\ eventName(e) = AddedOwner
    /\ "values" \in DOMAIN e
    /\ "owner" \in DOMAIN e.values
    /\ toLowerCase(e.values.owner) = toLowerCase(signerAddress)

hasSafeAddress(e) ==
    "values" \in DOMAIN e /\ "safeAddress" \in DOMAIN e.values /\ e.values.safeAddress # ""

\* the safeAddress of every owner event that has one, in event order
safeCandidates(items, signerAddress) ==
    LET ownerEvents == SelectSeq(items, LAMBDA e : isOwnerEvent(e, signerAddress))
        withSafe == SelectSeq(ownerEvents, hasSafeAddress)
    IN  [i \in 1..Len(withSafe) |-> withSafe[i].values.safeAddress]

\* up to the loop: the candidates, or an exception
signerEventsBody(o, signerAddress) ==
    IF o.kind = "network_error" \/ o.kind = "bad_json" THEN Thrown
    ELSE IF o.kind = "status" THEN Returned(<<>>)
    ELSE LET eventsData == o.data IN
         IF eventsData = JsNull THEN Thrown                 \* eventsData.result
         ELSE IF \/ ~isObject(eventsData)
                 \/ "result" \notin DOMAIN eventsData
                 \/ eventsData.result = JsNull
             THEN Returned(<<>>)                            \* !eventsData.result
         ELSE IF ~isArray(eventsData.result) THEN Thrown    \* result.forEach
         ELSE IF \E i \in 1..Len(eventsData.result.items) :
                     eventsData.result.items[i] = JsNull
             THEN Thrown                                    \* event.event
         ELSE Returned(safeCandidates(eventsData.result.items, signerAddress))

signerCandidates(o, signerAddress) == tryCatch(signerEventsBody(o, signerAddress), <<>>)

(***************************************************************************)
(* checkMintableAmount, from the response of circles_getMintableAmount.    *)
(* A result is [digits |-> n] for a numeric string, [text |-> s] else.     *)
(***************************************************************************)
mintableBody(o) ==
    IF o.kind = "network_error" \/ o.kind = "bad_json" THEN Thrown
    ELSE IF o.kind = "status" THEN Returned(0)
    ELSE LET data == o.data IN
         IF data = JsNull THEN Thrown
         ELSE IF ~isObject(data) \/ "result" \notin DOMAIN data \/ data.result = JsNull
             THEN Returned(0)
         ELSE IF "digits" \in DOMAIN data.result THEN Returned(data.result.digits)
         ELSE Thrown                                        \* BigInt(...) SyntaxError

checkMintableAmount(o) == tryCatch(mintableBody(o), 0)

(***************************************************************************)
(* checkActiveCirclesToken.  The first half runs on the response of the    *)
(* circles_events request: it returns the avatar info (or undefined, <<>>) *)
(* or asks for the mintable amount with the avatar info built so far.      *)
(* signupTimestamp is left out of the avatar info.                         *)
(***************************************************************************)
\* { ...a, ...b }
merge(a, b) == [f \in DOMAIN a \cup DOMAIN b |-> IF f \in DOMAIN b THEN b[f] ELSE a[f]]

some(items, P(_)) == \E i \in 1..Len(items) : P(items[i])

avatarTypeOf(items) ==
    IF some(items, LAMBDA e : includes(eventName(e), "Group")) THEN "group"
    ELSE IF some(items, LAMBDA e : includes(eventName(e), "Organization")) THEN "organization"
    ELSE "human"

tokenEventsBody(o, address, now) ==
    IF o.kind = "network_error" \/ o.kind = "bad_json" THEN Thrown
    ELSE IF o.kind = "status" THEN Returned([final |-> TRUE, avatarInfo |-> <<>>])
    ELSE LET data == o.data IN
         IF data = JsNull THEN Thrown                       \* data.result
         ELSE IF /\ isObject(data)
                 /\ "result" \in DOMAIN data
                 /\ isArray(data.result)
                 /\ Len(data.result.items) > 0
         THEN LET items == data.result.items IN
              IF some(items, LAMBDA e : e = JsNull) THEN Thrown   \* e.event in analyzeActivity
              ELSE LET activityAnalysis == analyzeActivity(items, now) IN
                   IF activityAnalysis.shouldSkip THEN
                       Returned([final |-> TRUE, avatarInfo |-> <<merge(
                           [avatar |-> address, avatarType |-> "organization",
                            circlesVersion |-> "v2", mintableAmount |-> 0],
                           activityAnalysis)>>])
                   ELSE IF some(items, LAMBDA e : eventName(e) = RegisterHuman) THEN
                       Returned([final |-> FALSE, avatarInfo |-> <<merge(
                           [avatar |-> address, tokenAddress |-> address,
                            avatarType |-> avatarTypeOf(items), circlesVersion |-> "v2"],
                           activityAnalysis)>>])
                   ELSE IF some(items, LAMBDA e : startsWith(eventName(e), <<"CrcV2_">>)) THEN
                       Returned([final |-> FALSE, avatarInfo |-> <<merge(
                           [avatar |-> address, tokenAddress |-> address,
                            avatarType |-> "human", circlesVersion |-> "v2"],
                           activityAnalysis)>>])
                   ELSE Returned([final |-> TRUE, avatarInfo |-> <<>>])
         ELSE Returned([final |-> TRUE, avatarInfo |-> <<>>])

tokenEvents(o, address, now) ==
    tryCatch(tokenEventsBody(o, address, now), [final |-> TRUE, avatarInfo |-> <<>>])

(***************************************************************************)
(* checkCirclesStatusWithDebug as a chain of requests.  A chain is the     *)
(* resolution of one address list; its phase names the request it awaits:  *)
(*   "direct"        profile request for addrs[idx]                        *)
(*   "signerEvents"  circles_events request for addrs[idx]                 *)
(*   "safeProfile"   profile request for Head(queue)                       *)
(*   "tokenEvents"   circles_events request for target                     *)
(*   "mintable"      circles_getMintableAmount request for target          *)
(* and "idle" before the call, "done" after it returned, "threw" after it  *)
(* threw.  calls counts the requests the chain has issued.  dFail, eFail,  *)
(* allFailed and ghost record which responses were failures, sites the     *)
(* places of the loop at which a request was issued, seen the latest       *)
(* response to the circles_events request of a signer lookup, tried the    *)
(* Safe addresses looked up since and named the event names of the log the *)
(* token check received; the code does not keep them.                      *)
(***************************************************************************)
Pending == {"direct", "signerEvents", "safeProfile", "tokenEvents", "mintable"}

newChain(addrs) ==
    [addrs |-> addrs, idx |-> 0, phase |-> "idle", direct |-> <<>>, queue |-> <<>>,
     signer |-> <<>>, target |-> "", avatar |-> <<>>, debug |-> <<>>, calls |-> 0,
     dFail |-> FALSE, eFail |-> FALSE, allFailed |-> TRUE, ghost |-> <<>>,
     sites |-> {}, seen |-> <<>>, tried |-> <<>>, named |-> {}, result |-> <<>>]

\* the response is a failure: transport error, non-2xx, or a malformed body
profileCallFailed(o) ==
    \/ o.kind # "json"
    \/ o.data = JsNull
    \/ isArray(o.data) /\ Len(o.data.items) > 0 /\ o.data.items[1] = JsNull

eventsCallFailed(o) ==
    \/ o.kind # "json"
    \/ o.data = JsNull
    \/ ~isObject(o.data)
    \/ "result" \notin DOMAIN o.data
    \/ ~isArray(o.data.result)
    \/ \E i \in 1..Len(o.data.result.items) : o.data.result.items[i] = JsNull

mintCallFailed(o) ==
    \/ o.kind # "json"
    \/ o.data = JsNull
    \/ ~isObject(o.data)
    \/ "result" \notin DOMAIN o.data
    \/ "digits" \notin DOMAIN o.data.result

notFound == [isOnCircles |-> FALSE]

\* faulty variant: a signer match does not end the loop
stops_directOnly(direct, signer) == direct.exists

\* the loop over the addresses ends at the address where a strategy succeeded
stops(direct, signer) == direct.exists \/ signer.exists

\* faulty variant: the signer match is tested first
chosen_signerFirst(direct, signer) == IF signer.exists THEN "signer" ELSE "direct"

\* "Return first successful match (prioritize direct, then signer)"; called
\* when one of the two exists
chosen(direct, signer) == IF direct.exists THEN "direct" ELSE "signer"

\* faulty variant: the signer branch copies the confidence of the direct branch
confidenceOf_same(match) == 95

confidenceOf(match) == IF match = "direct" THEN 95 ELSE 85

\* the for loop reaches addrs[idx]: the direct lookup is issued, or the loop ends
enterAddress(c, idx) ==
    IF idx <= Len(c.addrs)
    THEN [c EXCEPT !.idx = idx, !.phase = "direct", !.direct = <<>>, !.signer = <<>>,
                   !.queue = <<>>, !.dFail = FALSE, !.eFail = FALSE,
                   !.calls = c.calls + 1]
    ELSE [c EXCEPT !.idx = idx, !.phase = "done", !.result = <<notFound>>]

startChain(c) == enterAddress(c, 1)

\* faulty variant: the token check of a signer match is made on the input
\* address
afterBoth_onInput(c, signer) ==
    LET address == c.addrs[c.idx]
        direct == c.direct[1]
        d == [c EXCEPT !.signer = <<signer>>,
                       !.queue = <<>>,
                       !.debug = Append(c.debug, [address |-> address,
                                                  directCheck |-> direct,
                                                  signerCheck |-> signer]),
                       !.ghost = Append(c.ghost, [dFail |-> c.dFail, eFail |-> c.eFail])]
    IN  IF ~stops(direct, signer) THEN enterAddress(d, c.idx + 1)
        ELSE IF chosen(direct, signer) = "direct"
        THEN [d EXCEPT !.phase = "tokenEvents", !.target = address, !.calls = d.calls + 1]
        ELSE [d EXCEPT !.phase = "tokenEvents", !.target = address,
                       !.calls = d.calls + 1]

\* both strategies have answered for addrs[idx]
afterBoth(c, signer) ==
    LET address == c.addrs[c.idx]
        direct == c.direct[1]
        d == [c EXCEPT !.signer = <<signer>>,
                       !.queue = <<>>,
                       !.debug = Append(c.debug, [address |-> address,
                                                  directCheck |-> direct,
                                                  signerCheck |-> signer]),
                       !.ghost = Append(c.ghost, [dFail |-> c.dFail, eFail |-> c.eFail])]
    IN  IF ~stops(direct, signer) THEN enterAddress(d, c.idx + 1)
        ELSE IF chosen(direct, signer) = "direct"
        THEN [d EXCEPT !.phase = "tokenEvents", !.target = address, !.calls = d.calls + 1]
        ELSE [d EXCEPT !.phase = "tokenEvents", !.target = signer.mainAddress,
                       !.calls = d.calls + 1]

\* !!(avatarInfo && avatarInfo.f), avatarInfo an option
flag(avatar, P(_)) == avatar # <<>> /\ P(avatar[1])

\* the circlesData returned for a match
circlesData(c, avatar) ==
    LET address == c.addrs[c.idx]
        direct == c.direct[1]
        signer == c.signer[1]
        match == chosen(direct, signer)
        base ==
            [isOnCircles |-> TRUE,
             mainAddress |-> IF match = "direct" THEN address ELSE signer.mainAddress,
             profileData |-> IF match = "direct" THEN direct.profileData
                             ELSE signer.profileData,
             isActiveV2 |-> flag(avatar, LAMBDA a : "tokenAddress" \in DOMAIN a),
             isActivelyEarning |-> flag(avatar, LAMBDA a : a.mintableAmount > 0),
             isActiveByActivity |-> flag(avatar, LAMBDA a : a.isActiveByActivity),
             confidenceScore |-> confidenceOf(match)]
        viaSigner == IF match = "direct" THEN base
                     ELSE merge(base, [signerAddress |-> address])
    IN  IF avatar = <<>> THEN viaSigner
        ELSE LET a == avatar[1]
                 withAvatar == merge(viaSigner,
                     [avatarInfo |-> a,
                      activityScore |-> a.activityScore,
                      recentActivityCount |-> a.recentActivityCount,
                      lastActivityTimestamp |-> a.lastActivityTimestamp])
             IN  IF a.shouldSkip
                 THEN merge(withAvatar, [shouldSkip |-> TRUE, skipReason |-> a.skipReason])
                 ELSE withAvatar

finish(c, avatar) ==
    [c EXCEPT !.phase = "done", !.avatar = avatar, !.result = <<circlesData(c, avatar)>>]

\* the continuation of the chain on the response o to the request it awaits
onDirect(c, o) ==
    LET r == directCirclesProfileLookup(o) IN
    IF r.threw THEN [c EXCEPT !.phase = "threw"]
    ELSE [c EXCEPT !.direct = <<r.value>>, !.phase = "signerEvents",
                   !.dFail = profileCallFailed(o),
                   !.allFailed = c.allFailed /\ profileCallFailed(o),
                   !.calls = c.calls + 1]

onSignerEvents(c, o) ==
    LET q == signerCandidates(o, c.addrs[c.idx])
        d == [c EXCEPT !.eFail = eventsCallFailed(o),
                       !.seen = <<[idx |-> c.idx, response |-> o]>>, !.tried = <<>>,
                       !.allFailed = c.allFailed /\ eventsCallFailed(o)]
    IN  IF q.threw THEN [c EXCEPT !.phase = "threw"]
        ELSE IF q.value = <<>> THEN afterBoth(d, [exists |-> FALSE])
        ELSE [d EXCEPT !.queue = q.value, !.phase = "safeProfile", !.calls = d.calls + 1]

onSafeProfile(c, o) ==
    LET r == directCirclesProfileLookup(o)
        safeAddress == Head(c.queue)
        d == [c EXCEPT !.allFailed = c.allFailed /\ profileCallFailed(o),
                       !.tried = Append(c.tried, [candidate |-> safeAddress,
                                                  found |-> ~r.threw /\ r.value.exists])]
    IN  IF r.threw THEN afterBoth(d, [exists |-> FALSE])     \* caught by the signer lookup
        ELSE IF r.value.exists
        THEN afterBoth(d, [exists |-> TRUE, mainAddress |-> safeAddress,
                           profileData |-> r.value.profileData])
        ELSE IF Tail(c.queue) = <<>> THEN afterBoth(d, [exists |-> FALSE])
        ELSE [d EXCEPT !.queue = Tail(c.queue), !.calls = d.calls + 1]

\* the event names of the log in the response, none for a failure
namesOf(o) ==
    IF eventsCallFailed(o) THEN {}
    ELSE {eventName(o.data.result.items[i]) : i \in 1..Len(o.data.result.items)}

\* faulty variant: the mintable amount is asked for every avatar found
onTokenEvents_always(c, o, now) ==
    LET t == tokenEvents(o, c.target, now)
        d == [c EXCEPT !.allFailed = c.allFailed /\ eventsCallFailed(o),
                       !.named = namesOf(o)]
    IN  IF t.threw THEN [c EXCEPT !.phase = "threw"]
        ELSE IF t.value.avatarInfo = <<>> THEN finish(d, t.value.avatarInfo)
        ELSE [d EXCEPT !.avatar = t.value.avatarInfo, !.phase = "mintable",
                       !.calls = d.calls + 1]

onTokenEvents(c, o, now) ==
    LET t == tokenEvents(o, c.target, now)
        d == [c EXCEPT !.allFailed = c.allFailed /\ eventsCallFailed(o),
                       !.named = namesOf(o)]
    IN  IF t.threw THEN [c EXCEPT !.phase = "threw"]
        ELSE IF t.value.final THEN finish(d, t.value.avatarInfo)
        ELSE [d EXCEPT !.avatar = t.value.avatarInfo, !.phase = "mintable",
                       !.calls = d.calls + 1]

onMintable(c, o) ==
    LET m == checkMintableAmount(o)
        d == [c EXCEPT !.allFailed = c.allFailed /\ mintCallFailed(o)]
    IN  IF m.threw THEN finish(d, <<>>)                      \* caught by checkActiveCirclesToken
        ELSE finish(d, <<merge(c.avatar[1], [mintableAmount |-> m.value])>>)

(***************************************************************************)
(* Event logs the classification is checked on: every log of at most       *)
(* MaxLogLen sample events, and long runs of one event followed by at most *)
(* one sample event.                                                       *)
(***************************************************************************)
MaxLogLen == 2

RecentTime == Now0 - 10 * DaySeconds
QuarterTime == Now0 - 60 * DaySeconds
OldTime == Now0 - 200 * DaySeconds
EdgeTime == Now0 - 30 * DaySeconds

SampleNames ==
    {RegisterHuman, RegisterOrganization, TransferSingle, TrustEvent,
     AddedOwner, V1OrganizationSignup}

SampleStamps ==
    { [values |-> [timestamp |-> NumTs(RecentTime)]],
      [values |-> [timestamp |-> HexTs(ToHexDigits(QuarterTime))]],
      [values |-> [timestamp |-> NumTs(0)], timestamp |-> NumTs(OldTime)],
      [timestamp |-> HexTs(ToHexDigits(EdgeTime))],
      [values |-> [timestamp |-> HexTs(<<16, 1>>)]] }

withName(r, name) ==
    [f \in DOMAIN r \cup {"event"} |-> IF f = "event" THEN name ELSE r[f]]

SampleEvents ==
    {withName(s, n) : s \in SampleStamps, n \in SampleNames}
    \cup { [values |-> [timestamp |-> NumTs(RecentTime)]],
           [event |-> StreamCompleted],
           [event |-> V1Transfer, timestamp |-> NumTs(RecentTime)] }

RECURSIVE SeqsUpTo(_, _)
SeqsUpTo(S, n) ==
    IF n = 0 THEN {<<>>}
    ELSE LET shorter == SeqsUpTo(S, n - 1)
         IN  shorter \cup {Append(s, e) : s \in {t \in shorter : Len(t) = n - 1}, e \in S}

repeat(e, n) == [i \in 1..n |-> e]

BulkSizes == {6, 20, 51, 120, 310}
BulkEvents ==
    { [event |-> TransferSingle, values |-> [timestamp |-> NumTs(OldTime)]],
      [event |-> TransferSingle, values |-> [timestamp |-> NumTs(RecentTime)]],
      [event |-> TrustEvent, timestamp |-> HexTs(ToHexDigits(QuarterTime))] }

SampleLogs ==
    SeqsUpTo(SampleEvents, MaxLogLen)
    \cup {repeat(e, n) \o t : e \in BulkEvents, n \in BulkSizes,
                              t \in SeqsUpTo(SampleEvents, 1)}

(***************************************************************************)
(* The responses of the upstream services.  Every request of a kind may    *)
(* get any response of upstream[kind], whatever it got before.             *)
(***************************************************************************)
Alice == [name |-> "Alice"]
Carol == [name |-> "Carol", description |-> "c"]

ProfileBodies ==
    { JsArray(<<Alice>>), Carol, JsArray(<<>>), JsArray(<<JsNull>>), JsNull,
      [description |-> "nameless"], JsArray(<<[name |-> ""]>>) }

ownerEvent(owner, safe) ==
    [event |-> AddedOwner, values |-> [owner |-> owner, safeAddress |-> safe]]
ownerEventNoSafe(owner) == [event |-> AddedOwner, values |-> [owner |-> owner]]
stamped(name, t) == [event |-> name, values |-> [timestamp |-> NumTs(t)]]

EventLogs ==
    { <<ownerEvent("0xa", "0xC")>>,
      <<ownerEventNoSafe("0xB"), ownerEvent("0xb", "0xE"), ownerEvent("0xB", "0xC")>>,
      <<ownerEvent("0xA", "0xA"), [event |-> AddedOwner]>>,
      <<JsNull>>,
      <<stamped(RegisterHuman, OldTime), stamped(TransferSingle, RecentTime)>>,
      <<stamped(RegisterOrganization, OldTime), stamped(RegisterHuman, OldTime)>>,
      <<stamped(TransferSingle, QuarterTime)>>,
      <<stamped(RegisterHuman, OldTime), stamped(RegisterGroup, OldTime)>>,
      repeat(stamped(TrustEvent, RecentTime), 6) }

EventsBodies ==
    {[result |-> JsArray(l)] : l \in EventLogs}
    \cup { [result |-> JsArray(<<>>)], [id |-> 1], [result |-> [code |-> 1]],
           [result |-> JsNull], JsNull }

MintBodies ==
    { [result |-> [digits |-> 0]], [result |-> [digits |-> 5]],
      [result |-> [text |-> "abc"]], [result |-> JsNull], [id |-> 1], JsNull }

Responses(bodies) == TransportFailures \cup {Json(b) : b \in bodies}

FullUpstream ==
    [profile |-> Responses(ProfileBodies),
     events |-> Responses(EventsBodies),
     mint |-> Responses(MintBodies)]

NoUpstream == [profile |-> {}, events |-> {}, mint |-> {}]

(***************************************************************************)
(* The steps of a chain.  u is the position of the chain in chains.        *)
(***************************************************************************)
issued(c, d) == d.calls - c.calls

\* the place of the loop at which the chain awaits a response
site(c) == <<c.idx, c.phase, Len(c.queue)>>

visit(c, d) == IF issued(c, d) > 0 THEN [d EXCEPT !.sites = c.sites \cup {site(d)}] ELSE d

\* checkCirclesStatusWithDebug(addrs) has run up to its first await
started(addrs) == visit(newChain(addrs), startChain(newChain(addrs)))

\* no streaming run: checkCirclesStatusWithDebug is called on its own
NoRun == [pc |-> "none"]

\* Promise.all over the calls of a batch: rejected, fulfilled or pending
settled(cs) ==
    IF \E k \in DOMAIN cs : cs[k].phase = "threw" THEN "threw"
    ELSE IF \A k \in DOMAIN cs : cs[k].phase = "done" THEN "results"
    ELSE "wave"

\* a run that is observed keeps in firstDone the position in the batch of
\* the call that returned first, 0 while none has; the code does not
noteDone(r, u, cs) ==
    IF "firstDone" \in DOMAIN r /\ r.firstDone = 0 /\ cs[u].phase = "done"
    THEN [r EXCEPT !.firstDone = u]
    ELSE r

\* the chain runs on to its next await; in a streaming run the generator
\* resumes when the last call of the batch has returned
step(u, d) ==
    /\ chains' = [chains EXCEPT ![u] = visit(chains[u], d)]
    /\ httpCalls' = httpCalls + issued(chains[u], d)
    /\ run' = IF run = NoRun THEN run
              ELSE noteDone([run EXCEPT !.pc = settled(chains')], u, chains')
    /\ UNCHANGED <<ui, devCache, log, analysis, upstream, previous>>

RespondDirect(u) ==
    /\ chains[u].phase = "direct"
    /\ \E o \in upstream.profile : step(u, onDirect(chains[u], o))

RespondSignerEvents(u) ==
    /\ chains[u].phase = "signerEvents"
    /\ \E o \in upstream.events : step(u, onSignerEvents(chains[u], o))

RespondSafeProfile(u) ==
    /\ chains[u].phase = "safeProfile"
    /\ \E o \in upstream.profile : step(u, onSafeProfile(chains[u], o))

RespondTokenEvents(u) ==
    /\ chains[u].phase = "tokenEvents"
    /\ \E o \in upstream.events : step(u, onTokenEvents(chains[u], o, Now0))

RespondMintable(u) ==
    /\ chains[u].phase = "mintable"
    /\ \E o \in upstream.mint : step(u, onMintable(chains[u], o))

(***************************************************************************)
(* Specification of the resolver alone: one call of                        *)
(* checkCirclesStatusWithDebug on an address list, against every response  *)
(* of FullUpstream.                                                        *)
(***************************************************************************)
MaxAddrs == 2
InputAddrs == {"0xA", "0xB"}

ResolveInit ==
    /\ log = <<>>
    /\ analysis = <<>>
    /\ upstream = FullUpstream
    /\ \E addrs \in SeqsUpTo(InputAddrs, MaxAddrs) : chains = <<newChain(addrs)>>
    /\ httpCalls = 0
    /\ previous = <<>>
    /\ devCache = NoCache
    /\ ui = NoUi
    /\ run = NoRun

Resolve ==
    /\ chains[1].phase = "idle"
    /\ step(1, startChain(chains[1]))

ResolveNext ==
    \/ Resolve
    \/ RespondDirect(1)
    \/ RespondSignerEvents(1)
    \/ RespondSafeProfile(1)
    \/ RespondTokenEvents(1)
    \/ RespondMintable(1)

ResolveSpec == ResolveInit /\ [][ResolveNext]_vars

(***************************************************************************)
(* Specification of two calls in succession: once the first call of        *)
(* checkCirclesStatusWithDebug has returned, it is called again on the     *)
(* same address list.  The upstream repertoire is a part of FullUpstream.  *)
(***************************************************************************)
TwiceUpstream ==
    [profile |-> {[kind |-> "status", status |-> 429], Json(JsArray(<<Alice>>))},
     events |-> { [kind |-> "network_error"],
                  Json([result |-> JsArray(<<ownerEvent("0xa", "0xC")>>)]),
                  Json([result |-> JsArray(<<stamped(RegisterHuman, OldTime),
                                             stamped(TransferSingle, RecentTime)>>)]) },
     mint |-> {[kind |-> "status", status |-> 500], Json([result |-> [digits |-> 5]])}]

TwiceInit ==
    /\ log = <<>>
    /\ analysis = <<>>
    /\ upstream = TwiceUpstream
    /\ \E addrs \in SeqsUpTo(InputAddrs, MaxAddrs) : chains = <<newChain(addrs)>>
    /\ httpCalls = 0
    /\ previous = <<>>
    /\ devCache = NoCache
    /\ ui = NoUi
    /\ run = NoRun

ResolveAgain ==
    /\ chains[1].phase = "done"
    /\ previous = <<>>
    /\ previous' = <<[result |-> chains[1].result[1], calls |-> chains[1].calls]>>
    /\ chains' = <<started(chains[1].addrs)>>
    /\ httpCalls' = httpCalls + chains'[1].calls
    /\ UNCHANGED <<ui, devCache, log, analysis, upstream, run>>

TwiceNext ==
    \/ Resolve
    \/ ResolveAgain
    \/ RespondDirect(1)
    \/ RespondSignerEvents(1)
    \/ RespondSafeProfile(1)
    \/ RespondTokenEvents(1)
    \/ RespondMintable(1)

TwiceSpec == TwiceInit /\ [][TwiceNext]_vars

(***************************************************************************)
(* Specification of one classification: analyzeActivity(log, address).     *)
(***************************************************************************)
ActivityInit ==
    /\ log \in SampleLogs
    /\ analysis = <<>>
    /\ upstream = NoUpstream
    /\ chains = <<>>
    /\ httpCalls = 0
    /\ previous = <<>>
    /\ devCache = NoCache
    /\ ui = NoUi
    /\ run = NoRun

Analyze ==
    /\ analysis = <<>>
    /\ analysis' = <<analyzeActivity(log, Now0)>>
    /\ UNCHANGED <<ui, devCache, log, upstream, chains, httpCalls, previous, run>>

ActivityNext == Analyze

ActivitySpec == ActivityInit /\ [][ActivityNext]_vars

(***************************************************************************)
(* getCurrentUserTrustList, from the response of the circles_events        *)
(* request for an address of the viewer: the lowercased trustees.          *)
(***************************************************************************)
\* faulty variant: the truster is compared as written
isTrustBy_caseSensitive(e, currentUserAddress) ==
    /\ eventName(e) = TrustEvent
    /\ "values" \in DOMAIN e
    /\ "truster" \in DOMAIN e.values
    /\ e.values.truster = currentUserAddress

isTrustBy(e, currentUserAddress) ==
    /\ eventName(e) = TrustEvent
    /\ "values" \in DOMAIN e
    /\ "truster" \in DOMAIN e.values
    /\ toLowerCase(e.values.truster) = toLowerCase(currentUserAddress)

hasTrustee(e) ==
    "values" \in DOMAIN e /\ "trustee" \in DOMAIN e.values /\ e.values.trustee # ""

trustListBody(o, currentUserAddress) ==
    IF o.kind = "network_error" \/ o.kind = "bad_json" THEN Thrown
    ELSE IF o.kind = "status" THEN Returned({})
    ELSE LET data == o.data IN
         IF data = JsNull THEN Thrown                       \* data.result
         ELSE IF \/ ~isObject(data)
                 \/ "result" \notin DOMAIN data
                 \/ ~isArray(data.result)
             THEN Returned({})
         ELSE IF \E i \in 1..Len(data.result.items) : data.result.items[i] = JsNull
             THEN Thrown                                    \* event.event
         ELSE LET items == data.result.items
                  trustEvents == SelectSeq(items, LAMBDA e : isTrustBy(e, currentUserAddress))
              IN  Returned({toLowerCase(trustEvents[i].values.trustee) :
                              i \in {j \in 1..Len(trustEvents) : hasTrustee(trustEvents[j])}})

getCurrentUserTrustList(o, currentUserAddress) ==
    tryCatch(trustListBody(o, currentUserAddress), {}).value

(***************************************************************************)
(* streamCirclesStatus(users, currentUserAddresses) and the for await loop *)
(* of startCirclesAnalysis that consumes it.  run.pc is the place of the   *)
(* generator:                                                              *)
(*   "start"    not yet called                                             *)
(*   "trust"    awaiting the trust list of viewer[v]                       *)
(*   "noaddr"   at the yield for usersWithoutAddresses[y]                  *)
(*   "wave"     awaiting Promise.all of the batch that starts at i         *)
(*   "results"  at the yield for batchResults[y]                           *)
(*   "delay"    awaiting the timer between two batches                     *)
(*   "done"     returned                                                   *)
(*   "closed"   ended by the break of the consuming loop                   *)
(*   "threw"    Promise.all rejected                                       *)
(* A yield, the body of the consuming loop and the generator's run to its  *)
(* next yield or await are one chain of microtasks, so the abort of the    *)
(* controller, a user event, arrives only while a request or the timer is  *)
(* awaited.  callsBefore, callsAtAbort and trustCalls record numbers of    *)
(* requests; the code does not keep them.                                  *)
(***************************************************************************)
batchSize == 8

\* faulty variant: an empty address list counts as addresses
hasAddresses_defined(user) == "verified_addresses" \in DOMAIN user

hasAddresses(user) ==
    /\ "verified_addresses" \in DOMAIN user
    /\ "eth_addresses" \in DOMAIN user.verified_addresses
    /\ Len(user.verified_addresses.eth_addresses) > 0

lacksAddresses(user) ==
    \/ "verified_addresses" \notin DOMAIN user
    \/ "eth_addresses" \notin DOMAIN user.verified_addresses
    \/ Len(user.verified_addresses.eth_addresses) = 0

usersWithAddresses(users) == SelectSeq(users, hasAddresses)
usersWithoutAddresses(users) == SelectSeq(users, lacksAddresses)

\* faulty variant: the slice runs to the end of the list
slice_toEnd(items, from, to) == SubSeq(items, from + 1, Len(items))

\* Array.prototype.slice(from, to), from and to counted from 0
slice(items, from, to) == SubSeq(items, from + 1, Min(to, Len(items)))

\* faulty variant: the users without addresses are not counted
totalOf_withAddresses(users) == Len(usersWithAddresses(users))

totalOf(users) == Len(users)

newRun(users, viewer) ==
    [users |-> users, viewer |-> viewer, pc |-> "start", v |-> 0,
     currentUserTrusts |-> {}, completed |-> 0, i |-> 0, batch |-> <<>>, y |-> 0,
     yielded |-> <<>>, applied |-> <<>>, aborted |-> FALSE, callsAtAbort |-> 0,
     trustCalls |-> 0]

RECURSIVE callsOf(_)
callsOf(cs) == IF cs = <<>> THEN 0 ELSE cs[1].calls + callsOf(Tail(cs))

\* the batch that starts at i: every checkCirclesStatusWithDebug call of the
\* batch runs up to its first await
startWave(r, i) ==
    LET batch == slice(usersWithAddresses(r.users), i, i + batchSize)
        cs == [k \in 1..Len(batch) |-> started(batch[k].verified_addresses.eth_addresses)]
    IN  /\ chains' = cs
        /\ httpCalls' = httpCalls + callsOf(cs)
        /\ run' = [r EXCEPT !.pc = settled(cs), !.i = i, !.batch = batch, !.y = 1]

\* after the last user without addresses
enterWaves(r) ==
    IF usersWithAddresses(r.users) = <<>>
    THEN run' = [r EXCEPT !.pc = "done"] /\ UNCHANGED <<chains, httpCalls>>
    ELSE startWave(r, 0)

\* faulty variant: the loop over usersWithoutAddresses is left out
afterTrust_skipping(r) == enterWaves(r)

\* after the loop over currentUserAddresses
afterTrust(r) ==
    IF usersWithoutAddresses(r.users) # <<>>
    THEN run' = [r EXCEPT !.pc = "noaddr", !.y = 1] /\ UNCHANGED <<chains, httpCalls>>
    ELSE enterWaves(r)

Start ==
    /\ run.pc = "start"
    /\ IF Len(run.viewer) > 0
       THEN /\ run' = [run EXCEPT !.pc = "trust", !.v = 1, !.trustCalls = 1]
            /\ httpCalls' = httpCalls + 1
            /\ UNCHANGED chains
       ELSE afterTrust(run)
    /\ UNCHANGED <<ui, devCache, log, analysis, upstream, previous>>

TrustResponse ==
    /\ run.pc = "trust"
    /\ \E o \in upstream.events :
          LET trusts == getCurrentUserTrustList(o, run.viewer[run.v]) IN
          IF trusts # {} THEN afterTrust([run EXCEPT !.currentUserTrusts = trusts])
          ELSE IF run.v < Len(run.viewer)
          THEN /\ run' = [run EXCEPT !.v = run.v + 1, !.trustCalls = run.trustCalls + 1]
               /\ httpCalls' = httpCalls + 1
               /\ UNCHANGED chains
          ELSE afterTrust(run)
    /\ UNCHANGED <<ui, devCache, log, analysis, upstream, previous>>

\* completed++; yield { ..., progress: { completed, total } }
yield(r, fid, data) ==
    [r EXCEPT !.completed = r.completed + 1,
              !.yielded = Append(r.yielded,
                  [fid |-> fid, circlesData |-> data,
                   progress |-> [completed |-> r.completed + 1, total |-> totalOf(r.users)],
                   callsBefore |-> httpCalls])]

\* faulty variant: the loop body does not test the signal
aborted_never(r) == FALSE

\* controller.signal.aborted
aborted(r) == r.aborted

\* the body of the consuming loop on the update just yielded: the progress,
\* the result cache and the friend map take the update.  applied lists the
\* updates taken, each with the state of the signal at that time
apply(r) ==
    LET update == r.yielded[Len(r.yielded)] IN
    [r EXCEPT !.applied = Append(@, [fid |-> update.fid,
                                     completed |-> update.progress.completed,
                                     circlesData |-> update.circlesData,
                                     aborted |-> r.aborted])]

YieldNoAddress ==
    /\ run.pc = "noaddr"
    /\ LET rest == usersWithoutAddresses(run.users)
           r == yield(run, rest[run.y].fid, [isOnCircles |-> FALSE])
       IN  IF aborted(run)                        \* if (controller.signal.aborted) break
           THEN run' = [r EXCEPT !.pc = "closed"] /\ UNCHANGED <<chains, httpCalls>>
           ELSE IF run.y < Len(rest)
           THEN run' = [apply(r) EXCEPT !.y = run.y + 1] /\ UNCHANGED <<chains, httpCalls>>
           ELSE enterWaves(apply(r))
    /\ UNCHANGED <<ui, devCache, log, analysis, upstream, previous>>

\* faulty variant: the trust set is asked for the address as returned
batchResult_caseSensitive(user, c, currentUserTrusts) ==
    LET data == c.result[1]
        isTrustedByCurrentUser ==
            /\ data.isOnCircles
            /\ "mainAddress" \in DOMAIN data
            /\ data.mainAddress # ""
            /\ data.mainAddress \in currentUserTrusts
    IN  [fid |-> user.fid,
         circlesData |-> merge(data, [isTrustedByCurrentUser |-> isTrustedByCurrentUser])]

\* the value of one promise of the batch
batchResult(user, c, currentUserTrusts) ==
    LET data == c.result[1]
        isTrustedByCurrentUser ==
            /\ data.isOnCircles
            /\ "mainAddress" \in DOMAIN data
            /\ data.mainAddress # ""
            /\ toLowerCase(data.mainAddress) \in currentUserTrusts
    IN  [fid |-> user.fid,
         circlesData |-> merge(data, [isTrustedByCurrentUser |-> isTrustedByCurrentUser])]

YieldResult ==
    /\ run.pc = "results"
    /\ LET result == batchResult(run.batch[run.y], chains[run.y], run.currentUserTrusts)
           r == yield(run, result.fid, result.circlesData)
       IN  run' = IF aborted(run)                 \* if (controller.signal.aborted) break
                  THEN [r EXCEPT !.pc = "closed"]
                  ELSE IF run.y < Len(run.batch) THEN [apply(r) EXCEPT !.y = run.y + 1]
                  ELSE IF run.i + batchSize < Len(usersWithAddresses(run.users))
                  THEN [apply(r) EXCEPT !.pc = "delay"]
                  ELSE [apply(r) EXCEPT !.pc = "done"]
    /\ UNCHANGED <<ui, devCache, log, analysis, upstream, chains, httpCalls, previous>>

DelayElapsed ==
    /\ run.pc = "delay"
    /\ startWave(run, run.i + batchSize)
    /\ UNCHANGED <<ui, devCache, log, analysis, upstream, previous>>

\* stopAnalysis: abortController.abort()
Abort ==
    /\ run.pc \in {"trust", "wave", "delay"}
    /\ ~run.aborted
    /\ run' = [run EXCEPT !.aborted = TRUE, !.callsAtAbort = httpCalls]
    /\ UNCHANGED <<ui, devCache, log, analysis, upstream, chains, httpCalls, previous>>

(***************************************************************************)
(* Specification of one streaming run: every list of at most MaxUsers      *)
(* users with none, one or two viewer addresses against StreamUpstream,    *)
(* and one list of batchSize + 1 users against an upstream that fails.     *)
(***************************************************************************)
MaxUsers == 2

UserKinds(fid) ==
    { [fid |-> fid],
      [fid |-> fid, verified_addresses |-> [eth_addresses |-> <<>>]],
      [fid |-> fid, verified_addresses |-> [eth_addresses |-> <<"0xA">>]] }

RECURSIVE UserLists(_)
UserLists(n) ==
    IF n = 0 THEN {<<>>}
    ELSE UserLists(n - 1)
         \cup {Append(l, user) : l \in {m \in UserLists(n - 1) : Len(m) = n - 1},
                                 user \in UserKinds(n)}

Crowd == [k \in 1..(batchSize + 1) |->
             [fid |-> k, verified_addresses |-> [eth_addresses |-> <<"0xA">>]]]

Viewers == {<<>>, <<"0xA">>, <<"0xB", "0xA">>}

trustEvent(truster, trustee) ==
    [event |-> TrustEvent, values |-> [truster |-> truster, trustee |-> trustee]]

StreamUpstream ==
    [profile |-> {[kind |-> "status", status |-> 429], Json(JsArray(<<Alice>>))},
     events |-> { [kind |-> "network_error"],
                  Json([result |-> JsArray(<<ownerEvent("0xa", "0xC"),
                                             trustEvent("0xa", "0xC"),
                                             stamped(RegisterHuman, OldTime)>>)]) },
     mint |-> {[kind |-> "status", status |-> 500]}]

FailingUpstream ==
    [profile |-> {[kind |-> "status", status |-> 429]},
     events |-> {[kind |-> "network_error"]},
     mint |-> {}]

StreamInit ==
    /\ log = <<>>
    /\ analysis = <<>>
    /\ \/ /\ upstream = StreamUpstream
          /\ \E users \in UserLists(MaxUsers), viewer \in Viewers : run = newRun(users, viewer)
       \/ /\ upstream = FailingUpstream
          /\ run = newRun(Crowd, <<>>)
    /\ chains = <<>>
    /\ httpCalls = 0
    /\ previous = <<>>
    /\ devCache = NoCache
    /\ ui = NoUi

StreamNext ==
    \/ Start
    \/ TrustResponse
    \/ YieldNoAddress
    \/ \E u \in DOMAIN chains : RespondDirect(u)
    \/ \E u \in DOMAIN chains : RespondSignerEvents(u)
    \/ \E u \in DOMAIN chains : RespondSafeProfile(u)
    \/ \E u \in DOMAIN chains : RespondTokenEvents(u)
    \/ \E u \in DOMAIN chains : RespondMintable(u)
    \/ YieldResult
    \/ DelayElapsed
    \/ Abort

StreamSpec == StreamInit /\ [][StreamNext]_vars

(***************************************************************************)
(* Specification of one wave, observed: a run over two users with one      *)
(* address each and no viewer address, left to run to its end.             *)
(***************************************************************************)
Pair == [k \in 1..2 |-> [fid |-> k, verified_addresses |-> [eth_addresses |-> <<"0xA">>]]]

WaveInit ==
    /\ log = <<>>
    /\ analysis = <<>>
    /\ upstream = StreamUpstream
    /\ run = merge(newRun(Pair, <<>>), [firstDone |-> 0])
    /\ chains = <<>>
    /\ httpCalls = 0
    /\ previous = <<>>
    /\ devCache = NoCache
    /\ ui = NoUi

WaveNext ==
    \/ Start
    \/ \E u \in DOMAIN chains : RespondDirect(u)
    \/ \E u \in DOMAIN chains : RespondSignerEvents(u)
    \/ \E u \in DOMAIN chains : RespondSafeProfile(u)
    \/ \E u \in DOMAIN chains : RespondTokenEvents(u)
    \/ \E u \in DOMAIN chains : RespondMintable(u)
    \/ YieldResult

WaveSpec == WaveInit /\ [][WaveNext]_vars

(***************************************************************************)
(* Specification of the trust list loop of a run: the circles_events       *)
(* request of every viewer address gets one and the same response, any of  *)
(* TrustResponses, and no user has an address to resolve.                  *)
(***************************************************************************)
TrustLogs ==
    { <<>>,
      <<trustEvent("0xa", "0xC")>>,
      <<trustEvent("0xA", "0xB"), trustEvent("0xa", "0xC"), trustEvent("0xB", "0xD")>>,
      <<trustEvent("0xA", "0xC"), trustEvent("0xa", "0xc")>>,
      <<trustEvent("0xb", "0xE"), ownerEvent("0xa", "0xC")>>,
      <<[event |-> TrustEvent, values |-> [truster |-> "0xA"]], trustEvent("0xB", "0xD")>>,
      <<[event |-> TrustEvent], stamped(TrustEvent, RecentTime)>>,
      <<[event |-> AddedOwner, values |-> [truster |-> "0xa", trustee |-> "0xC"]]>>,
      <<trustEvent("0xa", "0xC"), JsNull>> }

TrustBodies ==
    {[result |-> JsArray(l)] : l \in TrustLogs}
    \cup {[id |-> 1], [result |-> [code |-> 1]], [result |-> JsNull], JsNull}

TrustResponses == Responses(TrustBodies)

NoAddressLists ==
    { <<>>, <<[fid |-> 1]>>,
      <<[fid |-> 1], [fid |-> 2, verified_addresses |-> [eth_addresses |-> <<>>]]>> }

TrustInit ==
    /\ log = <<>>
    /\ analysis = <<>>
    /\ \E o \in TrustResponses : upstream = [profile |-> {}, events |-> {o}, mint |-> {}]
    /\ \E users \in NoAddressLists, viewer \in Viewers : run = newRun(users, viewer)
    /\ chains = <<>>
    /\ httpCalls = 0
    /\ previous = <<>>
    /\ devCache = NoCache
    /\ ui = NoUi

TrustNext ==
    \/ Start
    \/ TrustResponse
    \/ YieldNoAddress

TrustSpec == TrustInit /\ [][TrustNext]_vars

(***************************************************************************)
(* Specification of the cache: set, get, getOrSet and clear calls with any *)
(* of Ttls, the calls of CirclesAnalyzer, at most MaxWrites entries stored  *)
(* and a clock that advances from 0 through Times, an hour and a day on    *)
(* and a millisecond past each.  localStorage is empty or holds an entry   *)
(* of an earlier session.                                                  *)
(***************************************************************************)
MaxWrites == 2

Ttls == {Hour, Day}
Times == {0, Hour, Hour + 1, Day, Day + 1}

\* what the rules of lazy eviction make of the entry of a key
liveAfterSet(c, key, data, ttlMs) ==
    [c.live EXCEPT ![key] = <<[data |-> data, timestamp |-> c.now, ttl |-> ttlMs]>>]

liveAfterGet(c, key) ==
    IF c.live[key] # <<>> /\ c.now - c.live[key][1].timestamp > c.live[key][1].ttl
    THEN [c.live EXCEPT ![key] = <<>>]
    ELSE c.live

\* a get, with the entry of the key before it and the value returned
called(c, key, value) ==
    <<[key |-> key, value |-> value, before |-> c.live[key], at |-> c.now]>>

\* the set calls made and the getOrSet calls that may still make one
writesOf(c) == c.writes + Len(c.pending)

\* the getOrSet calls awaiting their fetcher after one more for the key has
\* started; overlap marks the calls that await together with another call
\* for their key
joined(awaiting, key, ttlMs) ==
    LET rival == \E j \in 1..Len(awaiting) : awaiting[j].key = key IN
    Append([j \in 1..Len(awaiting) |->
               IF awaiting[j].key = key THEN [awaiting[j] EXCEPT !.overlap = TRUE]
               ELSE awaiting[j]],
           [key |-> key, ttlMs |-> ttlMs, overlap |-> rival])

\* Array.prototype.splice(i, 1), i counted from 1
without(l, i) == SubSeq(l, 1, i - 1) \o SubSeq(l, i + 1, Len(l))

CacheInit ==
    /\ log = <<>>
    /\ analysis = <<>>
    /\ upstream = NoUpstream
    /\ chains = <<>>
    /\ httpCalls = 0
    /\ previous = <<>>
    /\ run = NoRun
    /\ ui = NoUi
    /\ \E item \in {<<>>, <<[data |-> [isOnCircles |-> FALSE], timestamp |-> 0, ttl |-> Hour]>>} :
          devCache = [NoCache EXCEPT !.localStorage["circles_0xa"] = item,
                                     !.live["circles_0xa"] = item]

Set ==
    /\ writesOf(devCache) < MaxWrites
    /\ \E key \in Keys, data \in Values, ttlMs \in Ttls, persist \in BOOLEAN, quota \in BOOLEAN :
          devCache' = [set(devCache, key, data, ttlMs, persist, quota) EXCEPT
                          !.fetched = <<>>, !.last = <<>>, !.writes = @ + 1,
                          !.live = liveAfterSet(devCache, key, data, ttlMs)]
    /\ UNCHANGED <<ui, log, analysis, upstream, chains, httpCalls, previous, run>>

\* get(key), as loadCachedCirclesData calls it
Get ==
    /\ \E key \in Keys :
          devCache' = [get(devCache, key).cache EXCEPT
                          !.fetched = <<>>, !.last = called(devCache, key, get(devCache, key).value),
                          !.live = liveAfterGet(devCache, key)]
    /\ UNCHANGED <<ui, log, analysis, upstream, chains, httpCalls, previous, run>>

\* getOrSet(key, fetcher, ttlMs) up to its return or to the await of the
\* fetcher
GetOrSet ==
    /\ writesOf(devCache) < MaxWrites
    /\ \E key \in Keys, ttlMs \in Ttls :
          LET cached == get(devCache, key) IN
          devCache' = [cached.cache EXCEPT
                          !.fetched = <<>>, !.last = called(devCache, key, cached.value),
                          !.live = liveAfterGet(devCache, key),
                          !.pending = IF cached.value # <<>> THEN @
                                      ELSE joined(@, key, ttlMs)]
    /\ UNCHANGED <<ui, log, analysis, upstream, chains, httpCalls, previous, run>>

\* the fetcher of a pending getOrSet resolves
FetcherResolved ==
    /\ \E i \in 1..Len(devCache.pending), data \in Values, quota \in BOOLEAN :
          LET call == devCache.pending[i]
              c == [devCache EXCEPT !.pending = without(@, i)]
          IN  devCache' = [set(c, call.key, data, call.ttlMs, TRUE, quota) EXCEPT
                              !.fetched = <<[key |-> call.key, value |-> data,
                                             overlap |-> call.overlap]>>,
                              !.last = <<>>, !.writes = @ + 1,
                              !.live = liveAfterSet(devCache, call.key, data, call.ttlMs)]
    /\ UNCHANGED <<ui, log, analysis, upstream, chains, httpCalls, previous, run>>

\* the fetcher rejects: getOrSet rejects and stores nothing
FetcherRejected ==
    /\ \E i \in 1..Len(devCache.pending) :
          devCache' = [devCache EXCEPT !.pending = without(@, i), !.fetched = <<>>, !.last = <<>>]
    /\ UNCHANGED <<ui, log, analysis, upstream, chains, httpCalls, previous, run>>

Clear ==
    /\ devCache' = [clear(devCache) EXCEPT !.fetched = <<>>, !.last = <<>>, !.live = [k \in Keys |-> <<>>]]
    /\ UNCHANGED <<ui, log, analysis, upstream, chains, httpCalls, previous, run>>

\* startCirclesAnalysis: devCache.set(cacheKey, update.circlesData, 7 days)
CacheResult ==
    /\ writesOf(devCache) < MaxWrites
    /\ \E key \in Keys, data \in Values, quota \in BOOLEAN :
          devCache' = [set(devCache, key, data, SevenDays, TRUE, quota) EXCEPT
                          !.fetched = <<>>, !.last = <<>>, !.writes = @ + 1,
                          !.live = liveAfterSet(devCache, key, data, SevenDays)]
    /\ UNCHANGED <<ui, log, analysis, upstream, chains, httpCalls, previous, run>>

Tick ==
    /\ \E later \in Times :
          /\ later > devCache.now
          /\ devCache' = [devCache EXCEPT !.now = later]
    /\ UNCHANGED <<ui, log, analysis, upstream, chains, httpCalls, previous, run>>

CacheNext ==
    \/ Set
    \/ Get
    \/ GetOrSet
    \/ FetcherResolved
    \/ FetcherRejected
    \/ Clear
    \/ CacheResult
    \/ Tick

CacheSpec == CacheInit /\ [][CacheNext]_vars

(***************************************************************************)
(* CirclesAnalyzer.  ui holds the state of the component,                  *)
(*   isAnalyzing, isComplete                                               *)
(*   circlesProgress   <<>> for null, or <<[completed, total]>>            *)
(*   abortController   <<>> for null, or <<controller>>                    *)
(* the controllers whose signal is aborted, and the runs of                *)
(* startCirclesAnalysis: the controller of the run, the number of friends  *)
(* it streams, the updates its stream has still to yield, and whether it   *)
(* is in its for await loop ("streaming") or has returned ("ended").       *)
(* Handlers run on the state of the latest render.                         *)
(***************************************************************************)
MaxRuns == 2
MaxUpdates == 2

NoAnalysis ==
    [isAnalyzing |-> FALSE, isComplete |-> FALSE, circlesProgress |-> <<>>,
     abortController |-> <<>>, aborted |-> {}, runs |-> <<>>]

\* new AbortController()
newController(u) == Len(u.runs) + 1

\* abortController.abort(), when there is a controller
abortCurrent(u) ==
    IF u.abortController # <<>> THEN [u EXCEPT !.aborted = @ \cup {u.abortController[1]}]
    ELSE u

streaming(u) == {r \in DOMAIN u.runs : u.runs[r].pc = "streaming"}

\* startCirclesAnalysis up to its first await; toAnalyze is
\* friendsToAnalyze.length
startCirclesAnalysis(u, toAnalyze) ==
    IF u.isAnalyzing THEN u
    ELSE LET controller == newController(u)
             begun == [abortCurrent(u) EXCEPT !.abortController = <<controller>>,
                                                !.isAnalyzing = TRUE,
                                                !.isComplete = FALSE]
         IN  IF toAnalyze = 0
             THEN [begun EXCEPT !.isAnalyzing = FALSE, !.isComplete = TRUE,
                                  !.runs = Append(@, [controller |-> controller, total |-> 0,
                                                      left |-> 0, pc |-> "ended"])]
             ELSE [begun EXCEPT !.runs = Append(@, [controller |-> controller,
                                                      total |-> toAnalyze,
                                                      left |-> toAnalyze,
                                                      pc |-> "streaming"])]

\* the statements after the for await loop, reached at the end of the stream
\* and through break
analysisComplete(u, r) ==
    [u EXCEPT !.circlesProgress = <<>>, !.abortController = <<>>,
              !.isAnalyzing = FALSE, !.isComplete = TRUE, !.runs[r].pc = "ended"]

\* the body of the for await loop of run r for one update
analysisUpdate(u, r) ==
    LET this == u.runs[r] IN
    IF this.controller \in u.aborted THEN analysisComplete(u, r)
    ELSE [u EXCEPT !.circlesProgress = <<[completed |-> this.total - this.left + 1,
                                          total |-> this.total]>>,
                   !.runs[r].left = @ - 1]

stopAnalysis(u) ==
    [abortCurrent(u) EXCEPT !.abortController = <<>>, !.isAnalyzing = FALSE,
                            !.circlesProgress = <<>>]

AnalyzerInit ==
    /\ log = <<>>
    /\ analysis = <<>>
    /\ upstream = NoUpstream
    /\ chains = <<>>
    /\ httpCalls = 0
    /\ previous = <<>>
    /\ run = NoRun
    /\ devCache = NoCache
    /\ ui = NoAnalysis

\* a click on one of the two buttons that start the analysis
StartAnalysis ==
    /\ Len(ui.runs) < MaxRuns
    /\ \E toAnalyze \in 0..MaxUpdates : ui' = startCirclesAnalysis(ui, toAnalyze)
    /\ UNCHANGED <<devCache, log, analysis, upstream, chains, httpCalls, previous, run>>

\* a click on the stop button, which is rendered while isAnalyzing
StopAnalysis ==
    /\ ui.isAnalyzing
    /\ ui' = stopAnalysis(ui)
    /\ UNCHANGED <<devCache, log, analysis, upstream, chains, httpCalls, previous, run>>

\* the stream of a run yields an update
AnalysisUpdate ==
    /\ \E r \in streaming(ui) :
          /\ ui.runs[r].left > 0
          /\ ui' = analysisUpdate(ui, r)
    /\ UNCHANGED <<devCache, log, analysis, upstream, chains, httpCalls, previous, run>>

\* the stream of a run is done
AnalysisStreamEnds ==
    /\ \E r \in streaming(ui) :
          /\ ui.runs[r].left = 0
          /\ ui' = analysisComplete(ui, r)
    /\ UNCHANGED <<devCache, log, analysis, upstream, chains, httpCalls, previous, run>>

AnalyzerNext ==
    \/ StartAnalysis
    \/ StopAnalysis
    \/ AnalysisUpdate
    \/ AnalysisStreamEnds

AnalyzerSpec == AnalyzerInit /\ [][AnalyzerNext]_vars

(***************************************************************************)
(* FriendsList.  ui holds isProcessing, loadingFriends, circlesProgress,   *)
(* abortController, hasMoreFriends, whether allFriends holds a friend      *)
(* (loaded), the aborted controllers and the runs of                       *)
(* startCirclesProcessing.  loadingFriends is true exactly while the       *)
(* request of loadMoreFriends is pending.                                  *)
(*                                                                         *)
(* startCirclesProcessing is memoized with no dependency, loadMoreFriends  *)
(* on the user's fid and fetchFriends on loadMoreFriends: each of them     *)
(* reads the state of the render it was created in, before anything was    *)
(* loaded.  The scroll handler and the disabled flags of the buttons are   *)
(* taken from the latest render.                                           *)
(***************************************************************************)
NoFriends ==
    [isProcessing |-> FALSE, loadingFriends |-> FALSE, circlesProgress |-> <<>>,
     abortController |-> <<>>, hasMoreFriends |-> TRUE, loaded |-> FALSE,
     aborted |-> {}, runs |-> <<>>]

\* the state the memoized callbacks read
captured == NoFriends

\* setAbortController(v), with the cleanup of the effect that depends on
\* abortController: the controller that is replaced is aborted
setAbortController(u, v) ==
    [u EXCEPT !.abortController = v,
              !.aborted = IF u.abortController # <<>> /\ u.abortController # v
                          THEN @ \cup {u.abortController[1]} ELSE @]

\* startCirclesProcessing(newFriends) up to its first await; count is
\* newFriends.length
startCirclesProcessing(u, count) ==
    IF captured.isProcessing THEN u
    ELSE LET controller == newController(u) IN
         [setAbortController(u, <<controller>>) EXCEPT
             !.isProcessing = TRUE,
             !.runs = Append(@, [controller |-> controller, total |-> count,
                                 left |-> count, pc |-> "streaming"])]

\* the statements after the for await loop, reached at the end of the stream
\* and through break
processingComplete(u, r) ==
    [setAbortController(u, <<>>) EXCEPT !.circlesProgress = <<>>,
                                        !.isProcessing = FALSE,
                                        !.runs[r].pc = "ended"]

\* the body of the for await loop of run r for one update
processingUpdate(u, r) ==
    LET this == u.runs[r] IN
    IF this.controller \in u.aborted THEN processingComplete(u, r)
    ELSE [u EXCEPT !.circlesProgress = <<[completed |-> this.total - this.left + 1,
                                          total |-> this.total]>>,
                   !.runs[r].left = @ - 1]

\* loadMoreFriends(cursor) up to the fetch
loadMoreFriends(u) ==
    IF captured.loadingFriends THEN u ELSE [u EXCEPT !.loadingFriends = TRUE]

\* loadMoreFriends from the response on: ok is response.ok, more is
\* pagination.hasMore, count is friendsToProcess.length
friendsLoaded(u, ok, more, count) ==
    LET page == [u EXCEPT !.loaded = TRUE, !.hasMoreFriends = more]
        done == IF ~ok THEN u
                ELSE IF count > 0 /\ ~captured.isProcessing
                THEN startCirclesProcessing(page, count)
                ELSE page
    IN  [done EXCEPT !.loadingFriends = FALSE]

\* fetchFriends up to the fetch of the first page
fetchFriends(u) ==
    LET cancelled == IF captured.abortController # <<>>
                     THEN [u EXCEPT !.aborted = @ \cup {captured.abortController[1]},
                                    !.isProcessing = FALSE]
                     ELSE u
    IN  loadMoreFriends([cancelled EXCEPT !.loaded = FALSE, !.circlesProgress = <<>>,
                                          !.hasMoreFriends = TRUE,
                                          !.isProcessing = FALSE])

FriendsInit ==
    /\ log = <<>>
    /\ analysis = <<>>
    /\ upstream = NoUpstream
    /\ chains = <<>>
    /\ httpCalls = 0
    /\ previous = <<>>
    /\ run = NoRun
    /\ devCache = NoCache
    /\ ui = NoFriends

\* the effect that runs once the user is known, or a click on the refresh
\* button, disabled while loadingFriends or circlesProgress
RefreshFriends ==
    /\ ~ui.loadingFriends
    /\ ui.circlesProgress = <<>>
    /\ ui' = fetchFriends(ui)
    /\ UNCHANGED <<devCache, log, analysis, upstream, chains, httpCalls, previous, run>>

\* a click on the load more button, rendered while hasMoreFriends and a
\* friend is listed, disabled while loadingFriends
LoadMoreClicked ==
    /\ ui.hasMoreFriends
    /\ ui.loaded
    /\ ~ui.loadingFriends
    /\ ui' = loadMoreFriends(ui)
    /\ UNCHANGED <<devCache, log, analysis, upstream, chains, httpCalls, previous, run>>

\* a scroll event near the bottom of the list
Scrolled ==
    /\ ui.hasMoreFriends
    /\ ~ui.loadingFriends
    /\ ui.circlesProgress = <<>>
    /\ ~ui.isProcessing
    /\ ui' = loadMoreFriends(ui)
    /\ UNCHANGED <<devCache, log, analysis, upstream, chains, httpCalls, previous, run>>

\* the response to the request of loadMoreFriends
FriendsResponse ==
    /\ ui.loadingFriends
    /\ \E ok \in BOOLEAN, more \in BOOLEAN, count \in 0..MaxUpdates :
          /\ count > 0 => Len(ui.runs) < MaxRuns
          /\ ui' = friendsLoaded(ui, ok, more, count)
    /\ UNCHANGED <<devCache, log, analysis, upstream, chains, httpCalls, previous, run>>

\* the stream of a run yields an update
ProcessingUpdate ==
    /\ \E r \in streaming(ui) :
          /\ ui.runs[r].left > 0
          /\ ui' = processingUpdate(ui, r)
    /\ UNCHANGED <<devCache, log, analysis, upstream, chains, httpCalls, previous, run>>

\* the stream of a run is done
ProcessingStreamEnds ==
    /\ \E r \in streaming(ui) :
          /\ ui.runs[r].left = 0
          /\ ui' = processingComplete(ui, r)
    /\ UNCHANGED <<devCache, log, analysis, upstream, chains, httpCalls, previous, run>>

FriendsNext ==
    \/ Scrolled
    \/ LoadMoreClicked
    \/ RefreshFriends
    \/ FriendsResponse
    \/ ProcessingUpdate
    \/ ProcessingStreamEnds

FriendsSpec == FriendsInit /\ [][FriendsNext]_vars

(***************************************************************************)
(* Properties of analyzeActivity                                           *)
(***************************************************************************)
classified == analysis # <<>>

\* the log holds an event whose name marks an organization
orgMarked(l) == \E i \in 1..Len(l) : includes(eventName(l[i]), "Organization")

activityCount(l) == Cardinality({i \in 1..Len(l) : isActivityEvent(l[i])})

allZero(r) ==
    /\ r.activityScore = 0
    /\ r.recentActivityCount = 0
    /\ r.lastActivityTimestamp = 0
    /\ ~r.isActiveByActivity

\* C6: a non-empty log with an organization marker is classified
\* shouldSkip = true, isActiveByActivity = false, with score, recent count and
\* last timestamp 0, whatever else it holds; the empty log gets the all-zero
\* classification with shouldSkip = false.
C6_OrganizationExcluded ==
    classified =>
        /\ orgMarked(log) => analysis[1].shouldSkip /\ allZero(analysis[1])
        /\ log = <<>> => ~analysis[1].shouldSkip /\ allZero(analysis[1])

\* an organization log with more than 50 transfers, recent ones among them
C6_Witness ==
    /\ classified
    /\ orgMarked(log)
    /\ activityCount(log) > 50
    /\ \E i \in 1..Len(log) :
          isActivityEvent(log[i]) /\ gt(eventTimestamp(log[i]), thirtyDaysAgo(Now0))
    /\ analysis[1].shouldSkip

\* the timestamp of an event, 0 when none can be read from it
stampOf(e) == IF eventTimestamp(e).nan THEN 0 ELSE eventTimestamp(e).v

\* the activity events of the log, by position
activityAt(l) == {i \in 1..Len(l) : isActivityEvent(l[i])}

\* C26: without an organization marker recentActivityCount is the number of
\* activity events less than 30 days old, an event whose timestamp cannot be
\* read counting as one of timestamp 0 and so never as recent, and
\* lastActivityTimestamp is the greatest timestamp of the activity events, 0
\* when there is none.
C26_RecentAndLast ==
    classified /\ ~orgMarked(log) =>
        /\ analysis[1].recentActivityCount =
               Cardinality({i \in activityAt(log) :
                               Now0 - stampOf(log[i]) < 30 * DaySeconds})
        /\ \A i \in activityAt(log) : analysis[1].lastActivityTimestamp >= stampOf(log[i])
        /\ \/ analysis[1].lastActivityTimestamp = 0
           \/ \E i \in activityAt(log) : analysis[1].lastActivityTimestamp = stampOf(log[i])

\* a recent transfer followed by an activity event whose timestamp is not a
\* number: one recent event, the last activity is the transfer
C26_Witness ==
    /\ classified
    /\ ~orgMarked(log)
    /\ Len(log) = 2
    /\ activityAt(log) = {1, 2}
    /\ stampOf(log[1]) = RecentTime
    /\ eventTimestamp(log[2]).nan
    /\ analysis[1].recentActivityCount = 1
    /\ analysis[1].lastActivityTimestamp = RecentTime

bonusOf(last) ==
    IF Now0 - last < 30 * DaySeconds THEN 30
    ELSE IF Now0 - last < 90 * DaySeconds THEN 15
    ELSE 0

\* C7 as stated: without an organization marker the score is
\* 30 * min(1, events/10) + 40 * min(1, recent/20) + recency bonus.
C7_ScoreAsStated ==
    classified /\ ~orgMarked(log) =>
        analysis[1].activityScore =
            Min(30, 3 * activityCount(log))
            + Min(40, 2 * analysis[1].recentActivityCount)
            + bonusOf(analysis[1].lastActivityTimestamp)

\* C7 amended: without an event whose name contains "Organization" the score
\* is min(30, floor(events/10)) + min(40, 2 * recent) + recency bonus (30 if
\* the last activity is less than 30 days old, 15 if less than 90 days, else
\* 0); 120 activity events, none recent, the last 200 days ago score 12.
C7_Score ==
    classified /\ ~orgMarked(log) =>
        analysis[1].activityScore =
            Min(30, activityCount(log) \div 10)
            + Min(40, 2 * analysis[1].recentActivityCount)
            + bonusOf(analysis[1].lastActivityTimestamp)

C7_Witness ==
    /\ classified
    /\ ~orgMarked(log)
    /\ activityCount(log) = 120
    /\ analysis[1].recentActivityCount = 0
    /\ analysis[1].lastActivityTimestamp = OldTime
    /\ analysis[1].activityScore = 12

\* C8: without an organization marker isActiveByActivity is true exactly when
\* there are more than 50 activity events, or more than 5 recent ones, or the
\* score is above 40.
C8_ActiveRule ==
    classified /\ ~orgMarked(log) =>
        analysis[1].isActiveByActivity =
            (\/ activityCount(log) > 50
             \/ analysis[1].recentActivityCount > 5
             \/ analysis[1].activityScore > 40)

\* 120 old events, none recent: live through the volume clause alone
C8_Witness ==
    /\ classified
    /\ ~orgMarked(log)
    /\ activityCount(log) = 120
    /\ analysis[1].recentActivityCount = 0
    /\ analysis[1].activityScore <= 40
    /\ analysis[1].isActiveByActivity

(***************************************************************************)
(* Properties of the resolver                                              *)
(***************************************************************************)
returned(c) == c.phase = "done"
identity(c) == c.result[1]
lastCheck(c) == c.debug[Len(c.debug)]
someMatch(c) ==
    \E k \in 1..Len(c.debug) : c.debug[k].directCheck.exists \/ c.debug[k].signerCheck.exists

C4_DirectPrecedence ==
    \A u \in DOMAIN chains :
        /\ returned(chains[u])
        /\ chains[u].debug # <<>>
        /\ lastCheck(chains[u]).directCheck.exists
        /\ lastCheck(chains[u]).signerCheck.exists
        => /\ identity(chains[u]).isOnCircles
           /\ identity(chains[u]).mainAddress = lastCheck(chains[u]).address
           /\ identity(chains[u]).confidenceScore = 95
           /\ identity(chains[u]).profileData = lastCheck(chains[u]).directCheck.profileData
           /\ "signerAddress" \notin DOMAIN identity(chains[u])

\* both lookups succeeded, on different accounts with different profiles
C4_Witness ==
    /\ returned(chains[1])
    /\ chains[1].debug # <<>>
    /\ lastCheck(chains[1]).directCheck.exists
    /\ lastCheck(chains[1]).signerCheck.exists
    /\ lastCheck(chains[1]).signerCheck.mainAddress # lastCheck(chains[1]).address
    /\ lastCheck(chains[1]).signerCheck.profileData # lastCheck(chains[1]).directCheck.profileData
    /\ identity(chains[1]).mainAddress = lastCheck(chains[1]).address

firstMatch(c) ==
    CHOOSE k \in 1..Len(c.debug) :
        /\ c.debug[k].directCheck.exists \/ c.debug[k].signerCheck.exists
        /\ \A j \in 1..(k - 1) :
              ~c.debug[j].directCheck.exists /\ ~c.debug[j].signerCheck.exists

\* C11: the addresses are examined in the given order; the identity is the
\* result of the first address for which a strategy succeeded, no later
\* address is looked up and nothing of another address enters the identity;
\* the identity is a non-member only when every address was examined and
\* none matched.
C11_FirstAddressWins ==
    \A u \in DOMAIN chains :
        LET c == chains[u] IN
        /\ Len(c.debug) <= Len(c.addrs)
        /\ \A k \in 1..Len(c.debug) : c.debug[k].address = c.addrs[k]
        /\ \A k \in 1..(Len(c.debug) - 1) :
              ~c.debug[k].directCheck.exists /\ ~c.debug[k].signerCheck.exists
        /\ \A st \in c.sites : st[1] <= Len(c.debug) + 1
        /\ someMatch(c) => \A st \in c.sites : st[1] <= firstMatch(c)
        /\ returned(c) /\ ~someMatch(c) =>
              Len(c.debug) = Len(c.addrs) /\ identity(c) = [isOnCircles |-> FALSE]
        /\ returned(c) /\ someMatch(c) =>
              /\ identity(c).isOnCircles
              /\ identity(c).mainAddress \in
                     {lastCheck(c).address} \cup
                     (IF lastCheck(c).signerCheck.exists
                      THEN {lastCheck(c).signerCheck.mainAddress} ELSE {})
              /\ identity(c).profileData \in
                     (IF lastCheck(c).directCheck.exists
                      THEN {lastCheck(c).directCheck.profileData} ELSE {})
                     \cup (IF lastCheck(c).signerCheck.exists
                           THEN {lastCheck(c).signerCheck.profileData} ELSE {})
              /\ "signerAddress" \in DOMAIN identity(c) =>
                     identity(c).signerAddress = lastCheck(c).address

\* the first of two addresses matched through its signer: the identity is
\* its signer match and the second address was never looked up
C11_Witness ==
    /\ returned(chains[1])
    /\ Len(chains[1].addrs) = 2
    /\ Len(chains[1].debug) = 1
    /\ ~lastCheck(chains[1]).directCheck.exists
    /\ lastCheck(chains[1]).signerCheck.exists
    /\ identity(chains[1]).signerAddress = chains[1].addrs[1]
    /\ \A st \in chains[1].sites : st[1] = 1

\* the safeAddress values the claim names for a log: those of the
\* Safe_AddedOwner events whose owner is the address in any case, in order
RECURSIVE ownerSafes(_, _)
ownerSafes(items, address) ==
    IF items = <<>> THEN <<>>
    ELSE LET e == Head(items)
             named == "event" \in DOMAIN e /\ e.event = <<"Safe_", "AddedOwner">>
             owned == /\ "values" \in DOMAIN e
                      /\ "owner" \in DOMAIN e.values
                      /\ toLowerCase(e.values.owner) = toLowerCase(address)
             safe == "safeAddress" \in DOMAIN e.values /\ e.values.safeAddress # ""
         IN  (IF named /\ owned /\ safe THEN <<e.values.safeAddress>> ELSE <<>>)
             \o ownerSafes(Tail(items), address)

expectedCandidates(o, address) ==
    IF /\ o.kind = "json"
       /\ isObject(o.data)
       /\ "result" \in DOMAIN o.data
       /\ isArray(o.data.result)
       /\ \A i \in 1..Len(o.data.result.items) : o.data.result.items[i] # JsNull
    THEN ownerSafes(o.data.result.items, address)
    ELSE <<>>

\* C12: the signer strategy looks up the safeAddress of the Safe_AddedOwner
\* events whose owner is the address case-insensitively, in event order,
\* skipping events without a safeAddress; the first candidate with a profile
\* is the mainAddress, with signerAddress the input address and confidence
\* 85 when there is no direct profile; with no such candidate the strategy
\* reports not found.
C12_SignerStrategy ==
    \A u \in DOMAIN chains :
        LET c == chains[u] IN
        /\ c.seen # <<>> =>
              LET k == c.seen[1].idx
                  cand == expectedCandidates(c.seen[1].response, c.addrs[k])
              IN  /\ Len(c.tried) <= Len(cand)
                  /\ \A i \in 1..Len(c.tried) : c.tried[i].candidate = cand[i]
                  /\ \A i \in 1..(Len(c.tried) - 1) : ~c.tried[i].found
                  /\ c.phase = "safeProfile" =>
                        /\ c.idx = k
                        /\ Len(c.tried) < Len(cand)
                        /\ c.queue = SubSeq(cand, Len(c.tried) + 1, Len(cand))
                        /\ \A i \in 1..Len(c.tried) : ~c.tried[i].found
                  /\ k <= Len(c.debug) =>
                        LET signer == c.debug[k].signerCheck IN
                        /\ signer.exists = (c.tried # <<>> /\ c.tried[Len(c.tried)].found)
                        /\ signer.exists => signer.mainAddress = cand[Len(c.tried)]
                        /\ ~signer.exists => Len(c.tried) = Len(cand)
        /\ returned(c) /\ someMatch(c) /\ ~lastCheck(c).directCheck.exists =>
              /\ identity(c).mainAddress = lastCheck(c).signerCheck.mainAddress
              /\ identity(c).profileData = lastCheck(c).signerCheck.profileData
              /\ identity(c).signerAddress = lastCheck(c).address
              /\ identity(c).confidenceScore = 85

\* "0xB" resolved through the second of its two candidates, after an owner
\* event without safeAddress was skipped and the first candidate had no
\* profile
C12_Witness ==
    /\ returned(chains[1])
    /\ chains[1].debug # <<>>
    /\ lastCheck(chains[1]).address = "0xB"
    /\ ~lastCheck(chains[1]).directCheck.exists
    /\ Len(chains[1].tried) = 2
    /\ identity(chains[1]).isOnCircles
    /\ identity(chains[1]).mainAddress = "0xC"
    /\ identity(chains[1]).signerAddress = "0xB"

\* C23: after a match, the event log of the token check is asked for the
\* resolved mainAddress, the address itself for a direct match and the Safe
\* address for a signer match, and so are the mintable amount and the avatar
\* returned; for a signer match whose Safe is another address than the
\* input, no such request is made for the input address.
C23_ActivityOnMainAddress ==
    \A u \in DOMAIN chains :
        LET c == chains[u] IN
        /\ c.phase \in {"tokenEvents", "mintable"} =>
              /\ someMatch(c)
              /\ c.target = IF lastCheck(c).directCheck.exists THEN lastCheck(c).address
                            ELSE lastCheck(c).signerCheck.mainAddress
              /\ ~lastCheck(c).directCheck.exists
                 /\ lastCheck(c).signerCheck.mainAddress # lastCheck(c).address
                    => c.target # lastCheck(c).address
        /\ returned(c) /\ "avatarInfo" \in DOMAIN identity(c) =>
              identity(c).avatarInfo.avatar = identity(c).mainAddress

\* a signer match of "0xB" on another address, returned with the avatar of
\* that address
C23_Witness ==
    /\ returned(chains[1])
    /\ "signerAddress" \in DOMAIN identity(chains[1])
    /\ identity(chains[1]).signerAddress = "0xB"
    /\ identity(chains[1]).mainAddress \in {"0xC", "0xE"}
    /\ "avatarInfo" \in DOMAIN identity(chains[1])
    /\ identity(chains[1]).avatarInfo.avatar = identity(chains[1]).mainAddress
    /\ "tokenAddress" \in DOMAIN identity(chains[1]).avatarInfo

\* C27 as stated: an identity returned with a signerAddress has a
\* mainAddress that differs from it, letter case aside, whatever the upstream
\* services answer.
C27_MainDiffersFromSigner ==
    \A u \in DOMAIN chains :
        returned(chains[u]) /\ "signerAddress" \in DOMAIN identity(chains[u]) =>
            toLowerCase(identity(chains[u]).mainAddress)
                # toLowerCase(identity(chains[u]).signerAddress)

\* C28: an identity returned with isOnCircles = true has a mainAddress and a
\* profile whose name is not empty; one returned with isOnCircles = false
\* has nothing but that field: no mainAddress, no signerAddress, no profile.
C28_MemberShape ==
    \A u \in DOMAIN chains :
        returned(chains[u]) =>
            LET id == identity(chains[u]) IN
            IF id.isOnCircles
            THEN /\ "mainAddress" \in DOMAIN id
                 /\ id.mainAddress # ""
                 /\ "profileData" \in DOMAIN id
                 /\ "name" \in DOMAIN id.profileData
                 /\ id.profileData.name # ""
            ELSE DOMAIN id = {"isOnCircles"}

\* two addresses whose lookups found no profile name, answered with a bare
\* isOnCircles = false
C28_Witness ==
    /\ returned(chains[1])
    /\ ~identity(chains[1]).isOnCircles
    /\ Len(chains[1].debug) = 2
    /\ ~someMatch(chains[1])
    /\ DOMAIN identity(chains[1]) = {"isOnCircles"}

\* a signer match returned with the address and the named profile of the Safe
C28_WitnessMember ==
    /\ returned(chains[1])
    /\ identity(chains[1]).isOnCircles
    /\ "signerAddress" \in DOMAIN identity(chains[1])
    /\ identity(chains[1]).mainAddress = "0xC"
    /\ identity(chains[1]).profileData.name = "Carol"

\* a mintable amount request was issued by the resolution
askedMintable(c) == \E st \in c.sites : st[2] = "mintable"

\* C24: a mintable amount request is issued only for the address of a match,
\* after its event log came back without an organization event; a
\* resolution that returns a non-member, or an account with shouldSkip, has
\* issued none.
C24_MintableOnlyForMembers ==
    \A u \in DOMAIN chains :
        LET c == chains[u] IN
        /\ askedMintable(c) =>
              /\ someMatch(c)
              /\ c.target = IF lastCheck(c).directCheck.exists THEN lastCheck(c).address
                            ELSE lastCheck(c).signerCheck.mainAddress
              /\ c.named # {}
              /\ \A n \in c.named : \A i \in 1..Len(n) : n[i] # "Organization"
              /\ Cardinality({st \in c.sites : st[2] = "mintable"}) = 1
        /\ returned(c) /\ askedMintable(c) =>
              /\ identity(c).isOnCircles
              /\ "shouldSkip" \notin DOMAIN identity(c)

\* a member found by its profile whose log holds an organization event:
\* returned with shouldSkip and no mintable amount request
C24_Witness ==
    /\ returned(chains[1])
    /\ identity(chains[1]).isOnCircles
    /\ "shouldSkip" \in DOMAIN identity(chains[1])
    /\ identity(chains[1]).shouldSkip
    /\ ~askedMintable(chains[1])
    /\ \E n \in chains[1].named : \E i \in 1..Len(n) : n[i] = "Organization"

\* C13 as stated: the addresses of a resolved identity are in lowercase,
\* whatever the case of the input address and of the event's safeAddress.
C13_LowercaseAddresses ==
    \A u \in DOMAIN chains :
        returned(chains[u]) /\ identity(chains[u]).isOnCircles =>
            /\ identity(chains[u]).mainAddress = toLowerCase(identity(chains[u]).mainAddress)
            /\ "signerAddress" \in DOMAIN identity(chains[u]) =>
                  identity(chains[u]).signerAddress =
                      toLowerCase(identity(chains[u]).signerAddress)

\* C5 as stated: a second resolution of the same addresses, right after the
\* first, issues no upstream request and returns the same identity.
C5_SecondCallFromCache ==
    previous # <<>> =>
        /\ chains[1].calls = 0
        /\ returned(chains[1]) => identity(chains[1]) = previous[1].result

\* C9: the resolver never throws and never re-issues a request; a failed
\* request makes its own strategy not found and leaves the other strategy,
\* the other addresses and the membership alone; when every request failed
\* the identity is a non-member.
C9_FailuresAreNotFound ==
    \A u \in DOMAIN chains :
        /\ chains[u].phase # "threw"
        /\ chains[u].calls = Cardinality(chains[u].sites)
        /\ \A k \in 1..Len(chains[u].debug) :
              /\ chains[u].ghost[k].dFail => ~chains[u].debug[k].directCheck.exists
              /\ chains[u].ghost[k].eFail => ~chains[u].debug[k].signerCheck.exists
        /\ returned(chains[u]) =>
              /\ identity(chains[u]).isOnCircles = someMatch(chains[u])
              /\ chains[u].allFailed => ~identity(chains[u]).isOnCircles

\* the direct lookup failed, the signer lookup of the same address succeeded
\* and the identity is a member
C9_Witness ==
    /\ returned(chains[1])
    /\ chains[1].debug # <<>>
    /\ chains[1].ghost[Len(chains[1].ghost)].dFail
    /\ lastCheck(chains[1]).signerCheck.exists
    /\ identity(chains[1]).isOnCircles

\* every request of a two-address resolution failed
C9_WitnessAllFailed ==
    /\ returned(chains[1])
    /\ Len(chains[1].debug) = 2
    /\ chains[1].allFailed
    /\ ~identity(chains[1]).isOnCircles

(***************************************************************************)
(* Properties of streamCirclesStatus                                       *)
(***************************************************************************)
\* the user of a yielded item; the fids of a list are distinct
userOf(item) == CHOOSE user \in {run.users[k] : k \in 1..Len(run.users)} : user.fid = item.fid

noCandidate(user) ==
    "verified_addresses" \in DOMAIN user => user.verified_addresses.eth_addresses = <<>>

\* C1: a run over N users consumed to the end yields exactly N results, one
\* per user; the k-th result carries completed = k and total = N.
C1_Progress ==
    /\ run.pc # "threw"
    /\ \A k \in 1..Len(run.yielded) :
          run.yielded[k].progress = [completed |-> k, total |-> Len(run.users)]
    /\ run.pc = "done" =>
          /\ Len(run.yielded) = Len(run.users)
          /\ {run.yielded[k].fid : k \in 1..Len(run.yielded)} =
             {run.users[k].fid : k \in 1..Len(run.users)}

\* a run over users with and without addresses has been consumed to the end
C1_Witness ==
    /\ run.pc = "done"
    /\ Len(run.yielded) > 1
    /\ \E k \in 1..Len(run.users) : noCandidate(run.users[k])
    /\ \E k \in 1..Len(run.users) : ~noCandidate(run.users[k])
    /\ run.yielded[Len(run.yielded)].progress.completed = Len(run.users)

\* C2 as stated: once the controller is aborted, the run issues no further
\* upstream request.
C2_NoCallAfterAbort == run.aborted => httpCalls = run.callsAtAbort

\* C10 as stated: every user with no candidate address is yielded with
\* isOnCircles false, counted in the progress, before the run has issued any
\* upstream request.
C10_BeforeAnyCall ==
    \A k \in 1..Len(run.yielded) : noCandidate(userOf(run.yielded[k])) =>
        /\ ~run.yielded[k].circlesData.isOnCircles
        /\ run.yielded[k].progress.completed = k
        /\ run.yielded[k].callsBefore = 0

\* C10 amended: every user with no candidate address is yielded with
\* isOnCircles false, counted in the progress, before any request of a
\* resolution; the requests issued before are the trust list requests, at
\* most one per viewer address, and none when there is no viewer address.
C10_BeforeResolution ==
    \A k \in 1..Len(run.yielded) : noCandidate(userOf(run.yielded[k])) =>
        /\ ~run.yielded[k].circlesData.isOnCircles
        /\ run.yielded[k].progress.completed = k
        /\ run.yielded[k].callsBefore = run.trustCalls
        /\ run.trustCalls <= Len(run.viewer)

\* a user without addresses has been yielded after the trust list requests,
\* in a run that has users to resolve
C10_Witness ==
    /\ Len(run.yielded) > 0
    /\ noCandidate(userOf(run.yielded[1]))
    /\ run.yielded[1].callsBefore = 2
    /\ \E k \in 1..Len(run.users) : ~noCandidate(run.users[k])

\* the user of the result resolved and the viewer trusts the resolved address
trustedResolved(data) ==
    /\ data.isOnCircles
    /\ "mainAddress" \in DOMAIN data
    /\ toLowerCase(data.mainAddress) \in run.currentUserTrusts

\* C14 as stated: every yielded result carries isTrustedByCurrentUser, true
\* exactly when the user resolved and the viewer's trust set contains the
\* resolved mainAddress in lowercase, and false otherwise, users without
\* candidate addresses included.
C14_TrustedAsStated ==
    \A k \in 1..Len(run.yielded) :
        LET data == run.yielded[k].circlesData IN
        /\ "isTrustedByCurrentUser" \in DOMAIN data
        /\ data.isTrustedByCurrentUser = trustedResolved(data)

\* C14 amended: every result of a user with candidate addresses carries
\* isTrustedByCurrentUser, true exactly when the user resolved and the
\* viewer's trust set contains the resolved mainAddress in lowercase and
\* false otherwise; the result of a user without candidate addresses is
\* { isOnCircles: false } and carries no isTrustedByCurrentUser.
C14_Trusted ==
    \A k \in 1..Len(run.yielded) :
        LET data == run.yielded[k].circlesData IN
        IF noCandidate(userOf(run.yielded[k]))
        THEN data = [isOnCircles |-> FALSE]
        ELSE /\ "isTrustedByCurrentUser" \in DOMAIN data
             /\ data.isTrustedByCurrentUser = trustedResolved(data)

\* a run has yielded a user without addresses, and a user whose signer
\* lookup resolved to the Safe "0xC" that the viewer trusts as "0xc"
C14_Witness ==
    /\ run.currentUserTrusts = {"0xc"}
    /\ \E k \in 1..Len(run.yielded) : noCandidate(userOf(run.yielded[k]))
    /\ \E k \in 1..Len(run.yielded) :
          /\ ~noCandidate(userOf(run.yielded[k]))
          /\ run.yielded[k].circlesData.isTrustedByCurrentUser
          /\ run.yielded[k].circlesData.mainAddress = "0xC"

\* the response to every trust list request of the run
trustResponse == CHOOSE o \in upstream.events : TRUE

\* the response carries a list of events, each of them an object
listsEvents(o) ==
    /\ o.kind = "json"
    /\ "result" \in DOMAIN o.data
    /\ "items" \in DOMAIN o.data.result
    /\ \A i \in 1..Len(o.data.result.items) : "event" \in DOMAIN o.data.result.items[i]
                                                \/ "values" \in DOMAIN o.data.result.items[i]

\* the lowercased trustees of the trust events of the viewer in the response
expectedTrusts(o, viewer) ==
    IF ~listsEvents(o) THEN {}
    ELSE LET items == o.data.result.items
             mine == {i \in 1..Len(items) :
                         /\ DOMAIN items[i] = {"event", "values"}
                         /\ items[i].event = <<"CrcV2_", "Trust">>
                         /\ DOMAIN items[i].values = {"truster", "trustee"}
                         /\ toLowerCase(items[i].values.truster) = toLowerCase(viewer)}
         IN  {toLowerCase(items[i].values.trustee) : i \in mine}

\* C15: getCurrentUserTrustList returns exactly the lowercased trustees of
\* the trust events whose truster is the viewer address in any case, and the
\* empty set on a network error, a non-2xx status, a body without an array
\* result and a malformed event; it never throws into streamCirclesStatus,
\* which keeps the first list that is not empty.
C15_TrustList ==
    LET answer(j) == expectedTrusts(trustResponse, run.viewer[j])
        hits == {j \in 1..Len(run.viewer) : answer(j) # {}}
    IN  /\ run.pc # "threw"
        /\ run.pc = "start" => run.currentUserTrusts = {}
        /\ run.pc = "trust" =>
              /\ run.currentUserTrusts = {}
              /\ \A j \in 1..(run.v - 1) : answer(j) = {}
        /\ run.pc \notin {"start", "trust"} =>
              IF hits = {}
              THEN run.currentUserTrusts = {} /\ run.trustCalls = Len(run.viewer)
              ELSE LET first == CHOOSE j \in hits : \A k \in hits : j <= k
                   IN  /\ run.currentUserTrusts = answer(first)
                       /\ run.trustCalls = first

\* the viewer "0xA" got a log with its trust events written "0xA" and "0xa"
\* and one of another truster
C15_Witness ==
    /\ run.pc \notin {"start", "trust"}
    /\ run.viewer = <<"0xA">>
    /\ run.currentUserTrusts = {"0xb", "0xc"}
    /\ upstream.mint = {}

\* the entry a get of the key consults
entryOf(key) ==
    IF devCache.memoryCache[key] # <<>> THEN devCache.memoryCache[key]
    ELSE devCache.localStorage[key]

\* C16: a get of a key returns the stored value exactly when the key has an
\* entry and now - timestamp <= ttl; when now - timestamp > ttl the get
\* removes the entry and returns null; and the entry of a key is, at any
\* time, the one last set, unless such a get or clear removed it.
C16_LazyEviction ==
    /\ \A key \in Keys : entryOf(key) = devCache.live[key]
    /\ \A i \in 1..Len(devCache.last) :
          LET call == devCache.last[i] IN
          IF call.before = <<>> THEN call.value = <<>>
          ELSE IF call.at - call.before[1].timestamp <= call.before[1].ttl
          THEN call.value = <<call.before[1].data>>
          ELSE /\ call.value = <<>>
               /\ devCache.memoryCache[call.key] = <<>>
               /\ devCache.localStorage[call.key] = <<>>

\* a get found an entry one millisecond past its ttl of an hour, returned
\* null and removed it
C16_Witness ==
    /\ devCache.last # <<>>
    /\ devCache.last[1].before # <<>>
    /\ devCache.last[1].at - devCache.last[1].before[1].timestamp = Hour + 1
    /\ devCache.last[1].before[1].ttl = Hour
    /\ devCache.last[1].value = <<>>
    /\ entryOf(devCache.last[1].key) = <<>>

\* C17 as stated, for resolution results: a cached result is served for at
\* most 24 hours after it was computed.
C17_ServedWithinADay ==
    \A i \in 1..Len(devCache.last) :
        devCache.last[i].value # <<>> =>
            devCache.last[i].at - devCache.last[i].before[1].timestamp <= Day

\* C25: a getOrSet call whose fetcher resolves returns the value of its own
\* fetcher and leaves it in the cache under its key, also when another call
\* for the key was awaiting its fetcher at the same time, so that after two
\* overlapping calls the key holds the value of the fetcher that resolved
\* last; the entries of every other key stay as they were.
C25_LastWriterWins ==
    /\ [](devCache.fetched # <<>> =>
             LET call == devCache.fetched[1] IN
             /\ devCache.memoryCache[call.key] # <<>>
             /\ devCache.memoryCache[call.key][1].data = call.value)
    /\ [][(devCache'.fetched # <<>> /\ devCache'.writes # devCache.writes) =>
             \A k \in Keys \ {devCache'.fetched[1].key} :
                 /\ devCache'.memoryCache[k] = devCache.memoryCache[k]
                 /\ devCache'.localStorage[k] = devCache.localStorage[k]]_vars

\* the second of two overlapping calls for a key has returned, and the key
\* holds its value
C25_Witness ==
    /\ devCache.fetched # <<>>
    /\ devCache.fetched[1].overlap
    /\ devCache.pending = <<>>
    /\ devCache.writes = 2
    /\ devCache.memoryCache[devCache.fetched[1].key][1].data = devCache.fetched[1].value

\* the upstream requests awaiting their response: the trust list request,
\* or one per resolution of the batch that has not returned
inFlight ==
    IF run.pc = "trust" THEN 1
    ELSE Cardinality({u \in DOMAIN chains : chains[u].phase \notin {"idle", "done", "threw"}})

\* the step starts the resolutions of a batch
startsWave == run'.i # run.i \/ (run.pc \in {"start", "trust", "noaddr"} /\ chains' # <<>>)

\* C18: at every instant of a run at most batchSize upstream requests are in
\* flight, and the resolutions of a wave are started only when every
\* resolution of the wave before has been started, and indeed has returned.
C18_WaveBound ==
    /\ [](inFlight <= 8 /\ Len(chains) <= 8)
    /\ [][startsWave =>
            /\ \A u \in DOMAIN chains : chains[u].phase = "done"
            /\ Len(chains) = Len(run.batch)
            /\ run'.i = IF chains = <<>> THEN 0 ELSE run.i + 8
            /\ Len(run.yielded) >= run'.i]_vars

\* the second wave of a run over nine users: one request in flight, after
\* the eight results of the first wave
C18_Witness ==
    /\ run.pc = "wave"
    /\ run.i = 8
    /\ inFlight = 1
    /\ Len(run.yielded) = 8

\* C19 as stated: the first result yielded of a wave is the result of the
\* resolution of the wave that finished first.
C19_CompletionOrder ==
    Len(run.yielded) > 0 => run.yielded[1].fid = run.batch[run.firstDone].fid

\* C20 as stated: once the controller is aborted, the wait between two
\* waves included, the run starts no further wave.
C20_NoWaveAfterAbort == [][run.aborted => ~startsWave]_vars

\* C21: the consumer takes no update of a run after the controller of the
\* run was aborted: the updates taken are the updates yielded before, in
\* order, and an update yielded after the abort ends the loop untaken.
C21_DiscardedAfterAbort ==
    /\ \A k \in 1..Len(run.applied) :
          /\ ~run.applied[k].aborted
          /\ run.applied[k].fid = run.yielded[k].fid
          /\ run.applied[k].circlesData = run.yielded[k].circlesData
    /\ Len(run.applied) =
          IF run.pc = "closed" THEN Len(run.yielded) - 1 ELSE Len(run.yielded)
    /\ run.pc = "closed" => run.aborted

\* a run aborted during its second wave: the first result of that wave was
\* yielded and not taken
C21_Witness ==
    /\ run.pc = "closed"
    /\ run.aborted
    /\ Len(run.yielded) = 9
    /\ Len(run.applied) = 8

\* C22: when a result of a user with candidate addresses is yielded, the
\* result of every user without candidate addresses has been yielded before
\* it, wherever those users stand in the input list.
C22_FastPathFirst ==
    \A k \in 1..Len(run.yielded) : ~noCandidate(userOf(run.yielded[k])) =>
        \A j \in 1..Len(run.users) : noCandidate(run.users[j]) =>
            \E i \in 1..(k - 1) : run.yielded[i].fid = run.users[j].fid

\* the user without addresses stands last in the input and is yielded
\* first, before the result of the user that was looked up
C22_Witness ==
    /\ Len(run.users) = 2
    /\ ~noCandidate(run.users[1])
    /\ noCandidate(run.users[2])
    /\ Len(run.yielded) = 2
    /\ run.yielded[1].fid = run.users[2].fid
    /\ run.yielded[2].fid = run.users[1].fid
    /\ run.yielded[2].callsBefore > 0

\* C29 as stated: at most one run of startCirclesProcessing is in its for
\* await loop at any time.
C29_OneStream == Cardinality(streaming(ui)) <= 1

\* C30 as stated: a run of startCirclesAnalysis whose controller was aborted
\* by stopAnalysis leaves isComplete as it is when it returns, and while
\* another run is streaming it leaves isAnalyzing, circlesProgress and
\* abortController as they are too.
C30_StoppedRunIsSilent ==
    [][\A r \in streaming(ui) :
          (ui.runs[r].controller \in ui.aborted /\ ui'.runs[r].pc = "ended") =>
              /\ ui'.isComplete = ui.isComplete
              /\ streaming(ui) # {r} =>
                    /\ ui'.isAnalyzing = ui.isAnalyzing
                    /\ ui'.circlesProgress = ui.circlesProgress
                    /\ ui'.abortController = ui.abortController]_vars

====
